---- MODULE Spec2Model ----
(***************************************************************************)
(* Mock 3-D Secure ACS: the transaction store (state_store.rs) and the     *)
(* request handlers (handlers.rs) as a state machine.                      *)
(*                                                                         *)
(* Every Redis command is one atomic step.  A handler that issues a single *)
(* command (authenticate, final, trigger-otp) is one action; a handler     *)
(* that awaits several commands (results, verify-otp, challenge) occupies  *)
(* a slot of `inflight` between its commands, so that other requests and   *)
(* key expiry interleave exactly where the code suspends.                  *)
(***************************************************************************)
EXTENDS Integers, Sequences, FiniteSets, TLC

\* ------------------------------------------------------------------ bounds
\* Number of distinct threeDSServerTransID values requests may carry.
NumKeys == 2
\* Number of AReq that reach the store (each mints one acsTransID and one dsTransID).
MaxAReq == 2
\* Number of multi-command handlers that may be suspended at the same time.
MaxInFlight == 1
\* ttl_seconds of the configuration, in clock ticks.
TtlSeconds == 2

Keys == 1..NumKeys
Slots == 1..MaxInFlight

\* ------------------------------------------------------------------ Option<T>
None == <<>>
Some(x) == <<x>>
IsSome(o) == o # None
Unwrap(o) == o[1]

\* ------------------------------------------------------------------ values
\* A UUID that Uuid::new_v4() never returned (a foreign or guessed id).
ForeignUuid == 0
\* Uuid::new_v4(): the ids minted so far are 1..minted, the next ones are fresh.
MaxUuid == 2 * MaxAReq

Base64Alphabet ==
    << "A","B","C","D","E","F","G","H","I","J","K","L","M","N","O","P",
       "Q","R","S","T","U","V","W","X","Y","Z","a","b","c","d","e","f",
       "g","h","i","j","k","l","m","n","o","p","q","r","s","t","u","v",
       "w","x","y","z","0","1","2","3","4","5","6","7","8","9","+","/" >>

B64Char(n) == Base64Alphabet[n + 1]

\* general_purpose::STANDARD.encode: three bytes to four characters, "=" padding.
RECURSIVE Base64Encode(_)
Base64Encode(bytes) ==
    IF Len(bytes) = 0 THEN ""
    ELSE IF Len(bytes) = 1 THEN
        B64Char(bytes[1] \div 4) \o B64Char((bytes[1] % 4) * 16) \o "=="
    ELSE IF Len(bytes) = 2 THEN
        B64Char(bytes[1] \div 4)
        \o B64Char((bytes[1] % 4) * 16 + bytes[2] \div 16)
        \o B64Char((bytes[2] % 16) * 4) \o "="
    ELSE
        B64Char(bytes[1] \div 4)
        \o B64Char((bytes[1] % 4) * 16 + bytes[2] \div 16)
        \o B64Char((bytes[2] % 16) * 4 + bytes[3] \div 64)
        \o B64Char(bytes[3] % 64)
        \o Base64Encode(SubSeq(bytes, 4, Len(bytes)))

\* The 20 CAVV bytes: 0x02, 0x01, then (i*17 + 13 + 0x4A) mod 256 for i in 2..19.
cavv_bytes ==
    [j \in 1..20 |->
        IF j = 1 THEN 2
        ELSE IF j = 2 THEN 1
        ELSE ((j - 1) * 17 + 13 + 74) % 256]

generate_authentic_auth_value == Base64Encode(cavv_bytes)

generate_failed_auth_value == "AAAAAAAAAAAAAAAAAAAAAA=="

\* str::ends_with on sequences of digits.
ends_with(s, suffix) ==
    /\ Len(s) >= Len(suffix)
    /\ SubSeq(s, Len(s) - Len(suffix) + 1, Len(s)) = suffix

\* ------------------------------------------------------------------ results and encodings
\* Result<T, E>
Ok(v) == [ ok |-> TRUE, value |-> Some(v), error |-> "" ]
Err(e) == [ ok |-> FALSE, value |-> None, error |-> e ]

\* A byte string: its length and its content.
Bytes(n, v) == [ len |-> n, value |-> v ]
EmptyBytes == Bytes(0, 0)

\* base64url without padding: text that decodes to the bytes it was made from;
\* any other text does not decode.
URL_SAFE_NO_PAD_encode(bytes) == << "b64url", bytes >>
URL_SAFE_NO_PAD_decode(text) ==
    IF text[1] = "b64url" THEN Ok(text[2]) ELSE Err("invalid base64")

\* serde_json::to_string / to_vec and from_str / from_slice.
to_string(json) == << "json", json >>
from_str(text) == IF text[1] = "json" THEN Ok(text[2]) ELSE Err("invalid JSON")

\* ------------------------------------------------------------------ P-256, scaled down
\* The curve group is stood for by the multiplicative group modulo GroupPrime,
\* with generator GroupGen; a point is (x, y) with y fixed by x.
GroupPrime == 23
GroupGen == 5
GroupOrder == 22

RECURSIVE Pow(_, _)
Pow(b, e) == IF e = 0 THEN 1 ELSE (b * Pow(b, e - 1)) % GroupPrime

curve_y(x) == (x * x + 1) % GroupPrime
\* p256::PublicKey::from_sec1_bytes accepts the points of the curve only.
on_curve(x, y) == x \in 1..(GroupPrime - 1) /\ y = curve_y(x)

\* private_key.public_key(): d * G
public_key(d) == [ x |-> Pow(GroupGen, d), y |-> curve_y(Pow(GroupGen, d)) ]

\* Variant: the secret is computed from the generator, not from the peer's point.
diffie_hellman_of_generator(d, point) == Pow(GroupGen, d)

\* p256::ecdh::diffie_hellman(d, Q).raw_secret_bytes(): the x of d * Q
diffie_hellman(d, point) == Pow(point.x, d)

\* generate_ephemeral_key_pair, d being the scalar SecretKey::random returned.
generate_ephemeral_key_pair(d) ==
    [ private_key |-> URL_SAFE_NO_PAD_encode(Bytes(32, d)),
      public_key |->
          [ kty |-> "EC", crv |-> "P-256",
            x |-> Some(URL_SAFE_NO_PAD_encode(Bytes(32, public_key(d).x))),
            y |-> Some(URL_SAFE_NO_PAD_encode(Bytes(32, public_key(d).y))) ] ]

\* sdkReferenceNumber by platform (None: unsupported platform).
sdk_reference_number(platform) ==
    IF platform = "android" THEN Some("3DS_LOA_SDK_JTPL_020200_00788")
    ELSE IF platform = "ios" THEN Some("3DS_LOA_SDK_JTPL_020200_00805")
    ELSE None

\* The last five characters of the two reference numbers, as a number.
ref_code(reference) ==
    IF reference = "3DS_LOA_SDK_JTPL_020200_00788" THEN 788 ELSE 805

\* SHA-256 as a function of its input (a sequence of numbers), 32 bytes long:
\* two blocks of 16 bytes, each a number that no other input and no other block has.
RECURSIVE Absorb(_)
Absorb(input) ==
    IF input = << >> THEN 7
    ELSE (Absorb(SubSeq(input, 1, Len(input) - 1)) * 31 + input[Len(input)]) % 100003

Sha256(input) == << 2 * Absorb(input), 2 * Absorb(input) + 1 >>

\* Length in bytes of a key held as 16-byte blocks.
key_len(key) == 16 * Len(key)

\* calculate_derived_key: ECDH, then ConcatKDF with one round of SHA-256 over
\* counter || Z || algorithmID || partyUInfo || partyVInfo || suppPubInfo.
calculate_derived_key(sdk_public_key_jwk, our_private_key, platform) ==
    LET sdk_jwk == from_str(sdk_public_key_jwk)
        jwk == Unwrap(sdk_jwk.value)
        x_bytes == URL_SAFE_NO_PAD_decode(Unwrap(jwk.x))
        y_bytes == URL_SAFE_NO_PAD_decode(Unwrap(jwk.y))
        our_private_key_bytes == URL_SAFE_NO_PAD_decode(our_private_key)
        d == Unwrap(our_private_key_bytes.value).value
        x == Unwrap(x_bytes.value).value
        y == Unwrap(y_bytes.value).value
        shared_secret == diffie_hellman(d, [ x |-> x, y |-> y ])
        reference == sdk_reference_number(platform)
        party_v_info == << Len(Unwrap(reference)), ref_code(Unwrap(reference)) >>
        kdf_input == << 1, shared_secret, 0, 0 >> \o party_v_info \o << 256 >>
    IN
    IF ~sdk_jwk.ok THEN Err("invalid JWK")
    ELSE IF jwk.x = None THEN Err("Missing x coordinate in SDK public key")
    ELSE IF jwk.y = None THEN Err("Missing y coordinate in SDK public key")
    ELSE IF ~x_bytes.ok \/ ~y_bytes.ok \/ ~our_private_key_bytes.ok THEN Err("invalid base64")
    ELSE IF Unwrap(our_private_key_bytes.value).len # 32 THEN Err("Invalid private key length")
    ELSE IF d \notin 1..(GroupOrder - 1) THEN Err("Failed to create private key")
    ELSE IF ~on_curve(x, y) THEN Err("Failed to parse SDK public key")
    ELSE IF reference = None THEN Err("Unsupported platform")
    ELSE Ok(Sha256(kdf_input))

\* ------------------------------------------------------------------ JWE, both dialects
\* A ciphertext gives its plaintext back to the key and IV it was made with.
Ciphertext(cipher, key, iv, plaintext) ==
    [ cipher |-> cipher, key |-> key, iv |-> iv, plaintext |-> plaintext ]

\* HMAC-SHA-256 over AAD || IV || ciphertext || AL, truncated to 16 bytes.
hmac_tag(hmac_key, aad, iv, ciphertext) ==
    Bytes(16, << "HMAC-SHA-256", hmac_key, aad, iv, ciphertext, 8 * aad.len >>)

\* The tag of AES-128-GCM over the AAD and the plaintext.
gcm_tag(key, nonce, aad, plaintext) ==
    Bytes(16, << "GCM", key, nonce, aad, plaintext >>)

\* The protected header, serialised and base64url-encoded; as AAD, its ASCII bytes.
header_b64(enc, kid) ==
    URL_SAFE_NO_PAD_encode(to_string([ alg |-> "dir", enc |-> enc, kid |-> kid ]))
\* {"alg":"dir","enc":"<enc>","kid":"<36 characters>"}, base64url without padding
aad_of(header) ==
    Bytes(((31 + Len(header[2][2].enc) + 36) * 4 + 2) \div 3, header)

\* header.enc.as_str().unwrap_or("unknown") of a compact JWE
jwe_header(jwe_parts) ==
    LET header_data == URL_SAFE_NO_PAD_decode(jwe_parts[1]) IN
    IF ~header_data.ok THEN Err("invalid base64")
    ELSE from_str(Unwrap(header_data.value))

\* encrypt_challenge_response; iv_seed: the bytes OsRng.fill_bytes wrote.
encrypt_challenge_response(response_data, acs_trans_id, derived_key, platform, iv_seed) ==
    LET plaintext == to_string(response_data) IN
    IF platform = "android" THEN
        IF key_len(derived_key) # 32 THEN Err("Invalid derived key length for Android")
        ELSE
            LET hmac_key == derived_key[1]
                aes_key == derived_key[2]
                iv == Bytes(16, iv_seed)
                ciphertext == Ciphertext("AES-128-CBC", aes_key, iv, plaintext)
                header == header_b64("A128CBC-HS256", acs_trans_id)
                tag == hmac_tag(hmac_key, aad_of(header), iv, ciphertext)
            IN Ok(<< header,
                     URL_SAFE_NO_PAD_encode(EmptyBytes),
                     URL_SAFE_NO_PAD_encode(iv),
                     URL_SAFE_NO_PAD_encode(ciphertext),
                     URL_SAFE_NO_PAD_encode(tag) >>)
    ELSE IF platform = "ios" THEN
        IF key_len(derived_key) < 32 THEN Err("Insufficient key material for iOS")
        ELSE
            LET ios_key == derived_key[2]
                iv == Bytes(12, iv_seed)
                header == header_b64("A128GCM", acs_trans_id)
                ciphertext == Ciphertext("AES-128-GCM", ios_key, iv, plaintext)
                auth_tag == gcm_tag(ios_key, iv, aad_of(header), ciphertext)
            IN Ok(<< header,
                     URL_SAFE_NO_PAD_encode(EmptyBytes),
                     URL_SAFE_NO_PAD_encode(iv),
                     URL_SAFE_NO_PAD_encode(ciphertext),
                     URL_SAFE_NO_PAD_encode(auth_tag) >>)
    ELSE Err("Unsupported platform")

\* Variant: the tag is verified under the AES half of the key.
decrypt_challenge_request_one_key(jwe_parts, derived_key_buffer) ==
    LET header_json == jwe_header(jwe_parts)
        encryption == Unwrap(header_json.value).enc
        iv == URL_SAFE_NO_PAD_decode(jwe_parts[3])
        ciphertext == URL_SAFE_NO_PAD_decode(jwe_parts[4])
        auth_tag == URL_SAFE_NO_PAD_decode(jwe_parts[5])
        aad == aad_of(jwe_parts[1])
        ct == Unwrap(ciphertext.value)
    IN
    IF Len(jwe_parts) # 5 THEN Err("Invalid JWE structure, expected 5 parts.")
    ELSE IF ~header_json.ok THEN Err("invalid header")
    ELSE IF ~iv.ok \/ ~ciphertext.ok \/ ~auth_tag.ok THEN Err("invalid base64")
    ELSE IF encryption = "A128CBC-HS256" THEN
        IF key_len(derived_key_buffer) # 32 THEN Err("Invalid derived key length for Android")
        ELSE
            LET hmac_key == derived_key_buffer[2]
                aes_key == derived_key_buffer[2]
            IN
            IF hmac_tag(hmac_key, aad, Unwrap(iv.value), ct) # Unwrap(auth_tag.value)
            THEN Err("HMAC verification failed")
            ELSE IF ~(ct.cipher = "AES-128-CBC" /\ ct.key = aes_key /\ ct.iv = Unwrap(iv.value))
            THEN Err("AES-CBC decryption failed")
            ELSE from_str(ct.plaintext)
    ELSE IF encryption = "A128GCM" THEN
        IF key_len(derived_key_buffer) < 16 THEN Err("Insufficient key material for iOS")
        ELSE IF Unwrap(iv.value).len < 12 THEN Err("IV too short for GCM")
        ELSE
            LET ios_key == derived_key_buffer[1]
                nonce == Bytes(12, Unwrap(iv.value).value)
            IN
            IF ~(/\ gcm_tag(ios_key, nonce, aad, ct) = Unwrap(auth_tag.value)
                 /\ ct.cipher = "AES-128-GCM" /\ ct.key = ios_key /\ ct.iv = nonce)
            THEN Err("iOS A128GCM decryption failed")
            ELSE from_str(ct.plaintext)
    ELSE Err("Unsupported encryption algorithm")

\* decrypt_challenge_request: the payload of a compact JWE (its five parts)
\* under the derived key, in the dialect its header names.
decrypt_challenge_request(jwe_parts, derived_key_buffer) ==
    LET header_json == jwe_header(jwe_parts)
        encryption == Unwrap(header_json.value).enc
        iv == URL_SAFE_NO_PAD_decode(jwe_parts[3])
        ciphertext == URL_SAFE_NO_PAD_decode(jwe_parts[4])
        auth_tag == URL_SAFE_NO_PAD_decode(jwe_parts[5])
        aad == aad_of(jwe_parts[1])
        ct == Unwrap(ciphertext.value)
    IN
    IF Len(jwe_parts) # 5 THEN Err("Invalid JWE structure, expected 5 parts.")
    ELSE IF ~header_json.ok THEN Err("invalid header")
    ELSE IF ~iv.ok \/ ~ciphertext.ok \/ ~auth_tag.ok THEN Err("invalid base64")
    ELSE IF encryption = "A128CBC-HS256" THEN
        IF key_len(derived_key_buffer) # 32 THEN Err("Invalid derived key length for Android")
        ELSE
            LET hmac_key == derived_key_buffer[1]
                aes_key == derived_key_buffer[2]
            IN
            IF hmac_tag(hmac_key, aad, Unwrap(iv.value), ct) # Unwrap(auth_tag.value)
            THEN Err("HMAC verification failed")
            ELSE IF ~(ct.cipher = "AES-128-CBC" /\ ct.key = aes_key /\ ct.iv = Unwrap(iv.value))
            THEN Err("AES-CBC decryption failed")
            ELSE from_str(ct.plaintext)
    ELSE IF encryption = "A128GCM" THEN
        IF key_len(derived_key_buffer) < 16 THEN Err("Insufficient key material for iOS")
        ELSE IF Unwrap(iv.value).len < 12 THEN Err("IV too short for GCM")
        ELSE
            LET ios_key == derived_key_buffer[1]
                nonce == Bytes(12, Unwrap(iv.value).value)
            IN
            IF ~(/\ gcm_tag(ios_key, nonce, aad, ct) = Unwrap(auth_tag.value)
                 /\ ct.cipher = "AES-128-GCM" /\ ct.key = ios_key /\ ct.iv = nonce)
            THEN Err("iOS A128GCM decryption failed")
            ELSE from_str(ct.plaintext)
    ELSE Err("Unsupported encryption algorithm")

\* ------------------------------------------------------------------ inputs
\* acctNumber as a sequence of digits (only its suffix is read).
AcctNumbers == { <<4,0,0,0,4,0,0,1>>, <<4,0,0,0,0,0,0,2>> }
ChallengeInds == { "01", "04", "05" }
DeviceChannels == { "01", "02" }
SdkTransIds == { None, Some("sdk-uuid") }
\* The scalars SecretKey::random returns, and the platforms, JSON messages, kids
\* and IVs the crypto library is called with.
MaxScalar == 3
Scalars == 1..MaxScalar
Platforms == { "android", "ios" }
Messages ==
    { [ messageType |-> "CRes", transStatus |-> ts, challengeCompletionInd |-> "Y" ] :
        ts \in { "Y", "N" } }
CodecKids == { 1, 2 }
FirstIvSeed == 0
IvSeeds == { FirstIvSeed, FirstIvSeed + 1 }

\* The SDK's ephemeral key pair, and its public key as the AReq carries it.
SdkScalar == 7
SdkPublicJwk == to_string(generate_ephemeral_key_pair(SdkScalar).public_key)
SdkJwks == { None, Some(SdkPublicJwk) }

\* AuthenticateRequest: the fields the handlers read.
AuthenticateRequest(k, dc, ind, acct, sdk, jwk) ==
    [ three_ds_server_trans_id |-> k,
      sdk_trans_id |-> sdk,
      device_channel |-> dc,
      three_ds_requestor_challenge_ind |-> ind,
      acct_number |-> acct,
      sdk_ephemeral_public_key |-> jwk,
      notification_url |-> "https://merchant/notify" ]

\* The AReqs of the main specification: a browser challenge (card ending 4001),
\* a mobile challenge with its SDK key, and a mobile request without sdkTransId.
AReqs ==
    { AuthenticateRequest(k, "02", ind, <<4,0,0,0,4,0,0,1>>, None, None) :
        k \in Keys, ind \in {"01"} }
    \cup
    { AuthenticateRequest(k, "01", "04", <<4,0,0,0,0,0,0,2>>, Some("sdk-uuid"), Some(SdkPublicJwk)) :
        k \in Keys }
    \cup
    { AuthenticateRequest(k, "01", "04", <<4,0,0,0,0,0,0,2>>, None, Some(SdkPublicJwk)) :
        k \in Keys }

\* RReq bodies a 3DS Server posts to /3ds/results.
ExternalRReqs ==
    { [ acs_trans_id |-> ForeignUuid,
        ds_trans_id |-> ForeignUuid,
        sdk_trans_id |-> None,
        three_ds_server_trans_id |-> k,
        eci |-> "05",
        authentication_value |-> "external-cavv",
        trans_status |-> "U",
        message_version |-> "2.1.0",
        interaction_counter |-> "02" ] : k \in Keys }

Otps == { "1234", "0000" }
\* A serde_json::Value: its type and, as text, its content.
JsonString(s) == [ type |-> "string", text |-> s ]
JsonNumber(s) == [ type |-> "number", text |-> s ]
JsonNull == [ type |-> "null", text |-> "null" ]
\* Value::as_str: the content of a JSON string, None for every other value.
as_str(v) == IF v.type = "string" THEN Some(v.text) ELSE None
\* Option::unwrap_or
unwrap_or(o, default) == IF o = None THEN default ELSE Unwrap(o)
\* challengeDataEntry of a decrypted CReq: absent, or a JSON value.
ChallengeDataEntries == { None, Some(JsonString("1234")), Some(JsonString("0000")) }
Encs == { "A128CBC-HS256", "A128GCM", "A256GCM" }
RedirectQueries == { None, Some("https://merchant/return") }
\* The threeDSServerTransID form field of verify-otp: a UUID or not.
VerifyIds == { Some(k) : k \in Keys } \cup { None }

\* ------------------------------------------------------------------ state
VARIABLES
    redis,       \* key -> Option<TransactionData>: the value bound in Redis
    ttl,         \* key -> remaining lifetime in ticks (0 when unbound)
    minted,      \* number of UUIDs Uuid::new_v4() has returned
    inflight,    \* slot -> a suspended multi-command handler, or idle
    out,         \* Option<response>: the response produced by the last step
    rrSource,    \* history: key -> which handler wrote the current resultsRequest
    creq0Seen,   \* history (kept by ChallengeScanObserved): acsTransIDs whose CReq#0 was answered
    written,     \* history: key -> the last value written within the TTL
    sinceWrite,  \* history: key -> ticks since that write (capped at TtlSeconds)
    areqs,       \* history: key -> number of AReq stored under the key
    log_level,   \* the filter the logger was initialised with
    codec,       \* the crypto library on its own: the arguments and results of its calls
    retry        \* with_retry: the operation it runs, its attempt, outcomes and sleeps

vars == << redis, ttl, minted, inflight, out, rrSource, creq0Seen, written, sinceWrite, areqs,
           log_level, codec, retry >>

Idle == [ kind |-> "idle", pc |-> "idle", kid |-> ForeignUuid, enc |-> "",
          keys |-> {}, rreq |-> None, td |-> None,
          derived_key |-> << >>, iv_seed |-> 0 ]

\* The store, the handlers and the history at start-up, whatever the log level.
InitStore ==
    /\ redis = [k \in Keys |-> None]
    /\ ttl = [k \in Keys |-> 0]
    /\ minted = 0
    /\ inflight = [s \in Slots |-> Idle]
    /\ out = None
    /\ rrSource = [k \in Keys |-> "none"]
    /\ creq0Seen = {}
    /\ written = [k \in Keys |-> None]
    /\ sinceWrite = [k \in Keys |-> TtlSeconds]
    /\ areqs = [k \in Keys |-> 0]

\* No call of the crypto library has been made.
NoCalls ==
    [ sdk_keys |-> None, acs_keys |-> None, platform |-> "",
      derived_key_1 |-> None, derived_key_2 |-> None,
      message |-> None, kid |-> ForeignUuid, key |-> << >>,
      jwe |-> None, decrypted |-> None ]

\* No store operation is under way.
NoRetry ==
    [ pc |-> "idle", operation |-> "", attempt |-> 0,
      outcomes |-> << >>, slept |-> << >>, result |-> None ]

\* The server as configured by default: log_level "info".
Init ==
    /\ InitStore
    /\ log_level = "info"
    /\ codec = NoCalls
    /\ retry = NoRetry

\* The response of the last step has been sent: the next step may run.
Ready == out = None

\* The response is on the wire; nothing else is observed of it.
Deliver ==
    /\ out # None
    /\ out' = None
    /\ UNCHANGED << redis, ttl, minted, inflight, rrSource, creq0Seen, written, sinceWrite, areqs >>
    /\ UNCHANGED << log_level, codec, retry >>

\* ------------------------------------------------------------------ Redis commands
\* Variant: the key is given a lifetime one second longer than ttl_seconds.
insert_setex_longer(r, t, k, data) ==
    [ redis |-> [r EXCEPT ![k] = Some(data)],
      ttl |-> [t EXCEPT ![k] = TtlSeconds + 1] ]

\* Variant: the SETEX is acknowledged but the key is not bound.
insert_setex_dropped(r, t, k, data) ==
    [ redis |-> r, ttl |-> t ]

\* SETEX key ttl value, as insert issues it.
insert_setex(r, t, k, data) ==
    [ redis |-> [r EXCEPT ![k] = Some(data)],
      ttl |-> [t EXCEPT ![k] = TtlSeconds] ]

\* Variant: update rewrites the value and leaves the key's remaining lifetime alone.
update_setex_keep_ttl(r, t, k, data) ==
    [ redis |-> [r EXCEPT ![k] = Some(data)],
      ttl |-> t ]

\* SETEX key ttl value, as update issues it after its EXISTS check.
update_setex(r, t, k, data) ==
    [ redis |-> [r EXCEPT ![k] = Some(data)],
      ttl |-> [t EXCEPT ![k] = TtlSeconds] ]

\* GET key, deserialised: get returns Ok(Some(data)) or Ok(None).
get(r, k) == r[k]

\* Variant: update does not look whether the key exists (an upsert).
update_exists_always(r, k) == TRUE

\* EXISTS key, as update issues it.
update_exists(r, k) == r[k] # None

\* KEYS prefix:* : the keys bound now.
scan_keys(r) == { k \in Keys : r[k] # None }

\* Variant: a key whose lifetime ends keeps its value (expiry is not enforced).
Tick_keeping_values ==
    /\ Ready
    /\ \E k \in Keys : ttl[k] > 0
    /\ ttl' = [k \in Keys |-> IF ttl[k] > 0 THEN ttl[k] - 1 ELSE 0]
    /\ sinceWrite' = [k \in Keys |->
            IF sinceWrite[k] < TtlSeconds THEN sinceWrite[k] + 1 ELSE TtlSeconds]
    /\ written' = [k \in Keys |->
            IF sinceWrite[k] + 1 >= TtlSeconds THEN None ELSE written[k]]
    /\ out' = None
    /\ UNCHANGED << redis, rrSource, minted, inflight, creq0Seen, areqs >>
    /\ UNCHANGED << log_level, codec, retry >>

\* One second passes: Redis unbinds every key whose lifetime ends.
Tick ==
    /\ Ready
    /\ \E k \in Keys : ttl[k] > 0
    /\ ttl' = [k \in Keys |-> IF ttl[k] > 0 THEN ttl[k] - 1 ELSE 0]
    /\ redis' = [k \in Keys |-> IF ttl[k] = 1 THEN None ELSE redis[k]]
    /\ rrSource' = [k \in Keys |-> IF ttl[k] = 1 THEN "none" ELSE rrSource[k]]
    /\ sinceWrite' = [k \in Keys |->
            IF sinceWrite[k] < TtlSeconds THEN sinceWrite[k] + 1 ELSE TtlSeconds]
    /\ written' = [k \in Keys |->
            IF sinceWrite[k] + 1 >= TtlSeconds THEN None ELSE written[k]]
    /\ out' = None
    /\ UNCHANGED << minted, inflight, creq0Seen, areqs >>
    /\ UNCHANGED << log_level, codec, retry >>

\* ------------------------------------------------------------------ /3ds/authenticate
\* Variant: the card number is looked at first, challengeInd only for other cards.
should_challenge_card_first(req) ==
    IF ends_with(req.acct_number, <<4,0,0,1>>) THEN TRUE
    ELSE req.three_ds_requestor_challenge_ind = "04"

\* Variant: challengeInd "05" is not an exemption; the card number decides.
should_challenge_no_exemption(req) ==
    IF req.three_ds_requestor_challenge_ind = "04" THEN TRUE
    ELSE ends_with(req.acct_number, <<4,0,0,1>>)

\* The challenge decision: challengeInd first, then the card number.
should_challenge(req) ==
    IF req.three_ds_requestor_challenge_ind = "04" THEN TRUE
    ELSE IF req.three_ds_requestor_challenge_ind = "05" THEN FALSE
    ELSE ends_with(req.acct_number, <<4,0,0,1>>)

\* Variant: a mobile AReq without sdkTransId is let through.
missing_sdk_trans_id_never(req) == FALSE

\* is_mobile && sdk_trans_id.is_none()
missing_sdk_trans_id(req) ==
    req.device_channel = "01" /\ req.sdk_trans_id = None

\* format!("http://{}:{}", settings.server.host, settings.server.port), by default.
server_url == "http://127.0.0.1:8080"

\* Variant: the sdkTransId of the body is kept for mobile requests only.
NewTransactionData_sdk_mobile_only(req, acs_trans_id, ds_trans_id) ==
    LET is_mobile == req.device_channel = "01" IN
    [ authenticate_request |-> req,
      acs_trans_id |-> acs_trans_id,
      ds_trans_id |-> ds_trans_id,
      sdk_trans_id |-> IF is_mobile THEN req.sdk_trans_id ELSE None,
      results_request |-> None,
      ephemeral_keys |->
          IF is_mobile /\ should_challenge(req)
          THEN Some(generate_ephemeral_key_pair(acs_trans_id))
          ELSE None,
      redirect_url |-> Some(req.notification_url),
      sdk_ephemeral_public_key |->
          IF is_mobile THEN req.sdk_ephemeral_public_key ELSE None ]

\* The TransactionData authenticate_handler stores.
NewTransactionData(req, acs_trans_id, ds_trans_id) ==
    LET is_mobile == req.device_channel = "01" IN
    [ authenticate_request |-> req,
      acs_trans_id |-> acs_trans_id,
      ds_trans_id |-> ds_trans_id,
      sdk_trans_id |-> req.sdk_trans_id,
      results_request |-> None,
      ephemeral_keys |->
          IF is_mobile /\ should_challenge(req)
          THEN Some(generate_ephemeral_key_pair(acs_trans_id))
          ELSE None,
      redirect_url |-> Some(req.notification_url),
      sdk_ephemeral_public_key |->
          IF is_mobile THEN req.sdk_ephemeral_public_key ELSE None ]

\* Variant: the top-level acsUrl is given for every challenge, mobile included.
AuthenticateResponse_acs_url_any_channel(req, acs_trans_id, ds_trans_id, signed_ok) ==
    LET is_mobile == req.device_channel = "01"
        challenge == should_challenge(req)
    IN
    [ kind |-> "authenticate",
      status |-> 200,
      three_ds_server_trans_id |-> req.three_ds_server_trans_id,
      trans_status |-> IF challenge THEN "C" ELSE "Y",
      acs_challenge_mandated |-> IF challenge THEN "Y" ELSE "N",
      acs_operator_id |->
          IF req.three_ds_requestor_challenge_ind = "05" THEN "MOCK_ACS_NEW" ELSE "MOCK_ACS",
      acs_reference_number |->
          IF req.three_ds_requestor_challenge_ind = "05" THEN "issuer2" ELSE "issuer1",
      eci |-> "05",
      acs_trans_id |-> acs_trans_id,
      ds_trans_id |-> ds_trans_id,
      sdk_trans_id |-> IF is_mobile THEN req.sdk_trans_id ELSE None,
      acs_signed_content |->
          IF is_mobile /\ challenge /\ signed_ok THEN Some(<<"jws", acs_trans_id>>) ELSE None,
      base64_encoded_challenge_request |->
          IF challenge THEN Some(<<"CReq", req.three_ds_server_trans_id, acs_trans_id>>) ELSE None,
      acs_url |->
          IF challenge THEN Some(server_url \o "/processor/mock/acs/trigger-otp") ELSE None ]

\* Variant: when signing fails the ARes carries a hardcoded acsSignedContent.
AuthenticateResponse_hardcoded_fallback(req, acs_trans_id, ds_trans_id, signed_ok) ==
    LET is_mobile == req.device_channel = "01"
        challenge == should_challenge(req)
    IN
    [ kind |-> "authenticate",
      status |-> 200,
      three_ds_server_trans_id |-> req.three_ds_server_trans_id,
      trans_status |-> IF challenge THEN "C" ELSE "Y",
      acs_challenge_mandated |-> IF challenge THEN "Y" ELSE "N",
      acs_operator_id |->
          IF req.three_ds_requestor_challenge_ind = "05" THEN "MOCK_ACS_NEW" ELSE "MOCK_ACS",
      acs_reference_number |->
          IF req.three_ds_requestor_challenge_ind = "05" THEN "issuer2" ELSE "issuer1",
      eci |-> "05",
      acs_trans_id |-> acs_trans_id,
      ds_trans_id |-> ds_trans_id,
      sdk_trans_id |-> IF is_mobile THEN req.sdk_trans_id ELSE None,
      acs_signed_content |->
          IF is_mobile /\ challenge
          THEN IF signed_ok THEN Some(<<"jws", acs_trans_id>>) ELSE Some(<<"jws", ForeignUuid>>)
          ELSE None,
      base64_encoded_challenge_request |->
          IF challenge THEN Some(<<"CReq", req.three_ds_server_trans_id, acs_trans_id>>) ELSE None,
      acs_url |->
          IF challenge /\ ~is_mobile
          THEN Some(server_url \o "/processor/mock/acs/trigger-otp") ELSE None ]

AuthenticateResponse(req, acs_trans_id, ds_trans_id, signed_ok) ==
    LET is_mobile == req.device_channel = "01"
        challenge == should_challenge(req)
    IN
    [ kind |-> "authenticate",
      status |-> 200,
      three_ds_server_trans_id |-> req.three_ds_server_trans_id,
      trans_status |-> IF challenge THEN "C" ELSE "Y",
      acs_challenge_mandated |-> IF challenge THEN "Y" ELSE "N",
      acs_operator_id |->
          IF req.three_ds_requestor_challenge_ind = "05" THEN "MOCK_ACS_NEW" ELSE "MOCK_ACS",
      acs_reference_number |->
          IF req.three_ds_requestor_challenge_ind = "05" THEN "issuer2" ELSE "issuer1",
      eci |-> "05",
      acs_trans_id |-> acs_trans_id,
      ds_trans_id |-> ds_trans_id,
      sdk_trans_id |-> IF is_mobile THEN req.sdk_trans_id ELSE None,
      acs_signed_content |->
          IF is_mobile /\ challenge /\ signed_ok THEN Some(<<"jws", acs_trans_id>>) ELSE None,
      base64_encoded_challenge_request |->
          IF challenge THEN Some(<<"CReq", req.three_ds_server_trans_id, acs_trans_id>>) ELSE None,
      acs_url |->
          IF challenge /\ ~is_mobile
          THEN Some(server_url \o "/processor/mock/acs/trigger-otp") ELSE None ]

\* log::debug! evaluates its arguments only when the filter lets debug records through.
debug_enabled(level) == level \in {"debug", "trace"}

\* The handler's task panicked: the connection is closed and no response is written.
Panicked(kind, k) ==
    [ kind |-> kind, status |-> 0, three_ds_server_trans_id |-> k, error |-> "panic" ]

ErrorResponse(kind, status, k, error) ==
    [ kind |-> kind, status |-> status, three_ds_server_trans_id |-> k, error |-> error ]

\* req: the AReq body; signed_ok: the certificate and key load and the JWS is made;
\* backend_ok: insert's SETEX succeeds within its retries.
authenticate_handler(req, signed_ok, backend_ok) ==
    LET k == req.three_ds_server_trans_id
        acs_trans_id == minted + 1
        ds_trans_id == minted + 2
        data == NewTransactionData(req, acs_trans_id, ds_trans_id)
        w == insert_setex(redis, ttl, k, data)
    IN
    IF debug_enabled(log_level) /\ Len(req.acct_number) < 4 THEN
        \* &card_number[..4] in the arguments of debug! panics
        /\ out' = Some(Panicked("authenticate", k))
        /\ UNCHANGED << redis, ttl, minted, inflight, rrSource, creq0Seen, written, sinceWrite, areqs >>
    ELSE IF missing_sdk_trans_id(req) THEN
        /\ out' = Some(ErrorResponse("authenticate", 400, k, "sdkTransId is required"))
        /\ UNCHANGED << redis, ttl, minted, inflight, rrSource, creq0Seen, written, sinceWrite, areqs >>
    ELSE IF ~backend_ok THEN
        /\ out' = Some(ErrorResponse("authenticate", 500, k, "Failed to store transaction data"))
        /\ UNCHANGED << redis, ttl, minted, inflight, rrSource, creq0Seen, written, sinceWrite, areqs >>
    ELSE
        /\ minted + 2 <= MaxUuid
        /\ minted' = minted + 2
        /\ redis' = w.redis
        /\ ttl' = w.ttl
        /\ rrSource' = [rrSource EXCEPT ![k] = "none"]
        /\ written' = [written EXCEPT ![k] = Some(data)]
        /\ sinceWrite' = [sinceWrite EXCEPT ![k] = 0]
        /\ areqs' = [areqs EXCEPT ![k] = @ + 1]
        /\ out' = Some(AuthenticateResponse(req, acs_trans_id, ds_trans_id, signed_ok))
        /\ UNCHANGED << inflight, creq0Seen >>

Authenticate ==
    /\ Ready
    /\ \E req \in AReqs, signed_ok \in BOOLEAN, backend_ok \in BOOLEAN :
        authenticate_handler(req, signed_ok, backend_ok)
    /\ UNCHANGED << log_level, codec, retry >>

\* ------------------------------------------------------------------ /3ds/results
HasFreeSlot == \E s \in Slots : inflight[s].kind = "idle"
\* A new suspended handler takes the lowest idle slot.
FreeSlot == CHOOSE s \in Slots :
    /\ inflight[s].kind = "idle"
    /\ \A s2 \in Slots : s2 < s => inflight[s2].kind # "idle"

\* redirectUrl query parameter of verify-otp, with its default.
verify_redirect_url(query) ==
    IF query = None THEN "https://juspay.api.in.end" ELSE Unwrap(query)

\* An error body of /challenge. crypto: the calls of the crypto library the
\* handler made before it answered.
ChallengeError(status, kid, error) ==
    [ kind |-> "challenge", status |-> status, branch |-> error, results_rc |-> 0,
      enc |-> "", kid |-> kid, cres |-> None, jwe |-> None, crypto |-> << >> ]

\* Variant: the response is always encrypted in the Android dialect.
jose_always_cbc(resp, derived_key, iv_seed) ==
    LET platform == "android"
        encrypted_response ==
            encrypt_challenge_response(resp.cres, resp.kid, derived_key, platform, iv_seed)
        calls == << "calculate_derived_key", "decrypt_challenge_request",
                    "encrypt_challenge_response" >>
    IN
    IF ~encrypted_response.ok
    THEN [ChallengeError(500, resp.kid, "Failed to encrypt response") EXCEPT !.crypto = calls]
    ELSE [resp EXCEPT !.jwe = encrypted_response.value, !.crypto = calls]

\* The end of challenge_handler: the CRes is encrypted for the platform the
\* header's enc names, under the derived key, and sent as application/jose.
jose(resp, derived_key, iv_seed) ==
    LET platform == IF resp.enc = "A128GCM" THEN "ios" ELSE "android"
        encrypted_response ==
            encrypt_challenge_response(resp.cres, resp.kid, derived_key, platform, iv_seed)
        calls == << "calculate_derived_key", "decrypt_challenge_request",
                    "encrypt_challenge_response" >>
    IN
    IF ~encrypted_response.ok
    THEN [ChallengeError(500, resp.kid, "Failed to encrypt response") EXCEPT !.crypto = calls]
    ELSE [resp EXCEPT !.jwe = encrypted_response.value, !.crypto = calls]

\* Variant: the redirect of verify-otp carries the eci of the ARes ("05").
Response_redirect_ares_eci(cur, rc, error, query) ==
    LET rreq == Unwrap(cur.rreq) IN
    IF cur.kind = "results" THEN
        [ kind |-> "results", status |-> rc, error |-> error,
          three_ds_server_trans_id |-> rreq.three_ds_server_trans_id,
          results_status |-> IF rc = 200 THEN Some("01") ELSE None ]
    ELSE IF cur.kind = "verify" THEN
        \* "Continue with redirect even if results call failed"
        [ kind |-> "verify", status |-> 302, branch |-> "found",
          results_rc |-> rc,
          location |->
              [ url |-> verify_redirect_url(query),
                trans_status |-> rreq.trans_status,
                error |-> None,
                three_ds_server_trans_id |-> Some(rreq.three_ds_server_trans_id),
                eci |-> Some("05"),
                authentication_value |-> Some(rreq.authentication_value) ] ]
    ELSE
        jose([ kind |-> "challenge", status |-> 200, branch |-> "final",
               results_rc |-> rc,
               enc |-> cur.enc, kid |-> cur.kid,
               cres |->
                   [ acs_counter_a_to_s |-> "001",
                     acs_trans_id |-> cur.kid,
                     challenge_completion_ind |-> "Y",
                     message_version |-> rreq.message_version,
                     sdk_trans_id |-> rreq.sdk_trans_id,
                     three_ds_server_trans_id |-> rreq.three_ds_server_trans_id,
                     trans_status |-> Some(rreq.trans_status) ],
               jwe |-> None, crypto |-> << >> ],
             cur.derived_key, cur.iv_seed)

\* What the caller of results_handler answers once results_handler returned `rc`
\* (query: the redirectUrl query parameter of a verify-otp request).
Response(cur, rc, error, query) ==
    LET rreq == Unwrap(cur.rreq) IN
    IF cur.kind = "results" THEN
        [ kind |-> "results", status |-> rc, error |-> error,
          three_ds_server_trans_id |-> rreq.three_ds_server_trans_id,
          results_status |-> IF rc = 200 THEN Some("01") ELSE None ]
    ELSE IF cur.kind = "verify" THEN
        \* "Continue with redirect even if results call failed"
        [ kind |-> "verify", status |-> 302, branch |-> "found",
          results_rc |-> rc,
          location |->
              [ url |-> verify_redirect_url(query),
                trans_status |-> rreq.trans_status,
                error |-> None,
                three_ds_server_trans_id |-> Some(rreq.three_ds_server_trans_id),
                eci |-> Some(rreq.eci),
                authentication_value |-> Some(rreq.authentication_value) ] ]
    ELSE
        jose([ kind |-> "challenge", status |-> 200, branch |-> "final",
               results_rc |-> rc,
               enc |-> cur.enc, kid |-> cur.kid,
               cres |->
                   [ acs_counter_a_to_s |-> "001",
                     acs_trans_id |-> cur.kid,
                     challenge_completion_ind |-> "Y",
                     message_version |-> rreq.message_version,
                     sdk_trans_id |-> rreq.sdk_trans_id,
                     three_ds_server_trans_id |-> rreq.three_ds_server_trans_id,
                     trans_status |-> Some(rreq.trans_status) ],
               jwe |-> None, crypto |-> << >> ],
             cur.derived_key, cur.iv_seed)

\* results_handler returned `rc` to the handler in slot s, which answers at once.
Respond(s, cur, rc, error, query) ==
    /\ inflight' = [inflight EXCEPT ![s] = Idle]
    /\ out' = Some(Response(cur, rc, error, query))

\* Variant: a resultsRequest that is already set is kept (first writer wins).
set_results_request_once(transaction_data, req) ==
    IF transaction_data.results_request = None
    THEN [transaction_data EXCEPT !.results_request = Some(req)]
    ELSE transaction_data

\* Variant: an RReq whose transStatus is "U" resets the result instead of storing it.
set_results_request_unless_u(transaction_data, req) ==
    IF req.trans_status = "U"
    THEN [transaction_data EXCEPT !.results_request = None]
    ELSE [transaction_data EXCEPT !.results_request = Some(req)]

\* Variant: the record also adopts the acsTransID the RReq carries.
set_results_request_ids(transaction_data, req) ==
    [transaction_data EXCEPT !.results_request = Some(req),
                             !.acs_trans_id = req.acs_trans_id]

\* Variant: storing the result drops the ACS ephemeral key pair from the record.
set_results_request_dropping_keys(transaction_data, req) ==
    [transaction_data EXCEPT !.results_request = Some(req),
                             !.ephemeral_keys = None]

\* transaction_data.results_request = Some(req.into_inner())
set_results_request(transaction_data, req) ==
    [transaction_data EXCEPT !.results_request = Some(req)]

\* results_handler's state.get: `cur` is the handler that runs it in slot s.
results_get(s, cur, backend_ok, query) ==
    LET k == Unwrap(cur.rreq).three_ds_server_trans_id
        got == get(redis, k)
    IN
    /\ IF ~backend_ok THEN
          Respond(s, cur, 500, "Failed to retrieve transaction data: backend", query)
       ELSE IF got = None THEN Respond(s, cur, 400, "Transaction not found", query)
       ELSE
          /\ inflight' = [inflight EXCEPT ![s] =
                [cur EXCEPT !.pc = "r_exists",
                            !.td = Some(set_results_request(Unwrap(got), Unwrap(cur.rreq)))]]
          /\ out' = None
    /\ UNCHANGED << redis, ttl, minted, rrSource, creq0Seen, written, sinceWrite, areqs >>

\* state.update, first command: EXISTS; an absent key is StateError::NotFound.
results_update_exists(s, backend_ok, query) ==
    LET cur == inflight[s]
        k == Unwrap(cur.rreq).three_ds_server_trans_id
    IN
    /\ cur.pc = "r_exists"
    /\ IF ~backend_ok THEN
          Respond(s, cur, 500, "Failed to update transaction data: backend", query)
       ELSE IF ~update_exists(redis, k) THEN
          Respond(s, cur, 500, "Failed to update transaction data: Transaction not found", query)
       ELSE /\ inflight' = [inflight EXCEPT ![s].pc = "r_setex"]
            /\ out' = None
    /\ UNCHANGED << redis, ttl, minted, rrSource, creq0Seen, written, sinceWrite, areqs >>

\* state.update, second command: SETEX of the copy read by results_handler's get.
results_update_setex(s, backend_ok, query) ==
    LET cur == inflight[s]
        k == Unwrap(cur.rreq).three_ds_server_trans_id
        w == update_setex(redis, ttl, k, Unwrap(cur.td))
    IN
    /\ cur.pc = "r_setex"
    /\ IF ~backend_ok THEN
          /\ Respond(s, cur, 500, "Failed to update transaction data: backend", query)
          /\ UNCHANGED << redis, ttl, rrSource, written, sinceWrite >>
       ELSE
          /\ redis' = w.redis
          /\ ttl' = w.ttl
          /\ rrSource' = [rrSource EXCEPT ![k] = IF cur.kind = "results" THEN "results" ELSE "otp"]
          /\ written' = [written EXCEPT ![k] = cur.td]
          /\ sinceWrite' = [sinceWrite EXCEPT ![k] = 0]
          /\ Respond(s, cur, 200, "", query)
    /\ UNCHANGED << minted, creq0Seen, areqs >>

\* POST /3ds/results: the handler runs up to its first command, the get.
results_handler(rreq, backend_ok) ==
    /\ HasFreeSlot
    /\ results_get(FreeSlot, [Idle EXCEPT !.kind = "results", !.rreq = Some(rreq)], backend_ok, None)

Results ==
    /\ Ready
    /\ \E rreq \in ExternalRReqs, backend_ok \in BOOLEAN : results_handler(rreq, backend_ok)
    /\ UNCHANGED << log_level, codec, retry >>

\* The inner results_handler call of verify-otp and of /challenge reaches its get.
ResultsGet ==
    /\ Ready
    /\ \E s \in Slots, backend_ok \in BOOLEAN, query \in RedirectQueries :
        /\ inflight[s].pc = "r_get"
        /\ inflight[s].kind # "verify" => query = None
        /\ results_get(s, inflight[s], backend_ok, query)
    /\ UNCHANGED << log_level, codec, retry >>

ResultsUpdateExists ==
    /\ Ready
    /\ \E s \in Slots, backend_ok \in BOOLEAN, query \in RedirectQueries :
        /\ inflight[s].kind # "verify" => query = None
        /\ results_update_exists(s, backend_ok, query)
    /\ UNCHANGED << log_level, codec, retry >>

ResultsUpdateSetex ==
    /\ Ready
    /\ \E s \in Slots, backend_ok \in BOOLEAN, query \in RedirectQueries :
        /\ inflight[s].kind # "verify" => query = None
        /\ results_update_setex(s, backend_ok, query)
    /\ UNCHANGED << log_level, codec, retry >>

\* ------------------------------------------------------------------ OTP policy
\* Variant: an OTP that starts with 1234 is accepted.
otp_result_prefix(otp) ==
    IF otp \in {"1234", "12345"}
    THEN [ trans_status |-> "Y", eci |-> "02", authentication_value |-> generate_authentic_auth_value ]
    ELSE [ trans_status |-> "N", eci |-> "07", authentication_value |-> generate_failed_auth_value ]

\* (trans_status, eci, authentication_value) for a submitted OTP.
otp_result(otp) ==
    IF otp = "1234"
    THEN [ trans_status |-> "Y", eci |-> "02", authentication_value |-> generate_authentic_auth_value ]
    ELSE [ trans_status |-> "N", eci |-> "07", authentication_value |-> generate_failed_auth_value ]

\* Variant: the synthesised RReq carries the record's acsTransID as its dsTransID.
SynthesisedRReq_ds_from_acs(k, td, otp, message_version) ==
    [ acs_trans_id |-> td.acs_trans_id,
      ds_trans_id |-> td.acs_trans_id,
      sdk_trans_id |-> td.sdk_trans_id,
      three_ds_server_trans_id |-> k,
      eci |-> otp_result(otp).eci,
      authentication_value |-> otp_result(otp).authentication_value,
      trans_status |-> otp_result(otp).trans_status,
      message_version |-> message_version,
      interaction_counter |-> "01" ]

\* The RReq both challenge endpoints synthesise from the record they read.
SynthesisedRReq(k, td, otp, message_version) ==
    [ acs_trans_id |-> td.acs_trans_id,
      ds_trans_id |-> td.ds_trans_id,
      sdk_trans_id |-> td.sdk_trans_id,
      three_ds_server_trans_id |-> k,
      eci |-> otp_result(otp).eci,
      authentication_value |-> otp_result(otp).authentication_value,
      trans_status |-> otp_result(otp).trans_status,
      message_version |-> message_version,
      interaction_counter |-> "01" ]

\* ------------------------------------------------------------------ verify-otp
ErrorRedirect(redirect_url, branch) ==
    [ kind |-> "verify", status |-> 302, branch |-> branch,
      results_rc |-> 0,
      location |->
          [ url |-> redirect_url,
            trans_status |-> "U",
            error |-> Some("processing_error"),
            three_ds_server_trans_id |-> None,
            eci |-> None,
            authentication_value |-> None ] ]

\* Variant: a failed lookup is answered with 500 instead of the redirect.
verify_no_record_5xx(redirect_url, branch) ==
    [ErrorRedirect(redirect_url, branch) EXCEPT !.status = 500]

\* What verify-otp answers when its own state.get did not return a record.
verify_no_record(redirect_url, branch) == ErrorRedirect(redirect_url, branch)

\* POST verify-otp, up to its first command: id is the parsed threeDSServerTransID
\* (None when Uuid::parse_str fails), query the redirectUrl query parameter.
acs_verify_otp_handler(id, otp, query, backend_ok) ==
    LET redirect_url == verify_redirect_url(query)
        got == get(redis, Unwrap(id))
    IN
    /\ IF id = None THEN
          /\ out' = Some(ErrorRedirect(redirect_url, "bad_id"))
          /\ UNCHANGED inflight
       ELSE IF ~backend_ok THEN
          /\ out' = Some(verify_no_record(redirect_url, "get_err"))
          /\ UNCHANGED inflight
       ELSE IF got = None THEN
          /\ out' = Some(verify_no_record(redirect_url, "not_found"))
          /\ UNCHANGED inflight
       ELSE
          /\ HasFreeSlot
          /\ inflight' = [inflight EXCEPT ![FreeSlot] =
                [Idle EXCEPT !.kind = "verify", !.pc = "r_get",
                             !.rreq = Some(SynthesisedRReq(Unwrap(id), Unwrap(got), otp, "2.2.0"))]]
          /\ out' = None
    /\ UNCHANGED << redis, ttl, minted, rrSource, creq0Seen, written, sinceWrite, areqs >>

VerifyOtp ==
    /\ Ready
    /\ \E id \in VerifyIds, otp \in Otps, query \in RedirectQueries, backend_ok \in BOOLEAN :
        acs_verify_otp_handler(id, otp, query, backend_ok)
    /\ UNCHANGED << log_level, codec, retry >>

\* ------------------------------------------------------------------ /challenge
\* The OTP prompt CRes of a CReq without challengeDataEntry.
PromptCRes(kid, enc, k, td) ==
    [ kind |-> "challenge", status |-> 200, branch |-> "prompt", results_rc |-> 0,
      enc |-> enc, kid |-> kid,
      cres |->
          [ acs_counter_a_to_s |-> "000",
            acs_trans_id |-> kid,
            challenge_completion_ind |-> "N",
            message_version |-> "2.2.0",
            sdk_trans_id |-> td.sdk_trans_id,
            three_ds_server_trans_id |-> k,
            trans_status |-> None ],
      jwe |-> None, crypto |-> << >> ]

\* The kids a request can carry: an acsTransID of some ARes, a UUID that is
\* nobody's acsTransID, or no UUID at all.
Kids == { Some(2 * i - 1) : i \in 1..MaxAReq } \cup { Some(ForeignUuid), None }

\* POST /challenge up to the KEYS command of find_by_acs_trans_id. kid is the
\* header's kid as a UUID (None: no five parts, bad header, no kid, or no UUID).
challenge_handler(kid, backend_ok) ==
    /\ kid # None => Unwrap(kid) <= minted
    /\ IF kid = None THEN
          /\ out' = Some(ChallengeError(400, ForeignUuid, "Invalid kid format"))
          /\ UNCHANGED inflight
       ELSE IF ~backend_ok THEN
          /\ out' = Some(ChallengeError(500, Unwrap(kid), "Internal server error"))
          /\ UNCHANGED inflight
       ELSE IF scan_keys(redis) = {} THEN
          /\ out' = Some(ChallengeError(404, Unwrap(kid), "Transaction not found"))
          /\ UNCHANGED inflight
       ELSE
          /\ HasFreeSlot
          /\ inflight' = [inflight EXCEPT ![FreeSlot] =
                [Idle EXCEPT !.kind = "challenge", !.pc = "scan",
                             !.kid = Unwrap(kid), !.keys = scan_keys(redis)]]
          /\ out' = None
    /\ UNCHANGED << redis, ttl, minted, rrSource, creq0Seen, written, sinceWrite, areqs >>

Challenge ==
    /\ Ready
    /\ \E kid \in Kids, backend_ok \in BOOLEAN : challenge_handler(kid, backend_ok)
    /\ UNCHANGED << log_level, codec, retry >>

\* The OTP of a CReq that carries challengeDataEntry.
user_otp(challenge_data_entry) == unwrap_or(as_str(challenge_data_entry), "")

\* Variant: the ephemeral keys are not required; any record found is accepted.
challenge_found_any_record(s, k, td, enc, decrypt_ok, cde, iv_seed) ==
    LET cur == inflight[s]
        platform == IF enc = "A128CBC-HS256" THEN "android" ELSE "ios"
        derived_key ==
            IF td.sdk_ephemeral_public_key = None \/ td.ephemeral_keys = None
            THEN Ok(Sha256(<< >>))
            ELSE calculate_derived_key(Unwrap(td.sdk_ephemeral_public_key),
                                       Unwrap(td.ephemeral_keys).private_key, platform)
    IN
    IF enc \notin {"A128CBC-HS256", "A128GCM"} THEN
        /\ inflight' = [inflight EXCEPT ![s] = Idle]
        /\ out' = Some(ChallengeError(400, cur.kid, "Unsupported encryption algorithm"))
    ELSE IF ~derived_key.ok THEN
        /\ inflight' = [inflight EXCEPT ![s] = Idle]
        /\ out' = Some([ChallengeError(400, cur.kid, "Failed to derive shared key")
                            EXCEPT !.crypto = << "calculate_derived_key" >>])
    ELSE IF ~decrypt_ok THEN
        /\ inflight' = [inflight EXCEPT ![s] = Idle]
        /\ out' = Some([ChallengeError(400, cur.kid, "Failed to decrypt challenge request")
                            EXCEPT !.crypto = << "calculate_derived_key",
                                                 "decrypt_challenge_request" >>])
    ELSE IF cde = None THEN
        /\ inflight' = [inflight EXCEPT ![s] = Idle]
        /\ out' = Some(jose(PromptCRes(cur.kid, enc, k, td), Unwrap(derived_key.value), iv_seed))
    ELSE
        /\ inflight' = [inflight EXCEPT ![s] =
              [cur EXCEPT !.pc = "r_get", !.enc = enc, !.keys = {},
                          !.rreq = Some(SynthesisedRReq(k, td, user_otp(Unwrap(cde)), "2.2.0")),
                          !.derived_key = Unwrap(derived_key.value), !.iv_seed = iv_seed]]
        /\ out' = None

\* Variant: only the SDK key is required; a record without the server's key pair
\* gets a fresh one.
challenge_found_sdk_key_only(s, k, td, enc, decrypt_ok, cde, iv_seed) ==
    LET cur == inflight[s]
        platform == IF enc = "A128CBC-HS256" THEN "android" ELSE "ios"
        our_keys ==
            IF td.ephemeral_keys = None
            THEN generate_ephemeral_key_pair(cur.kid)
            ELSE Unwrap(td.ephemeral_keys)
        derived_key ==
            calculate_derived_key(Unwrap(td.sdk_ephemeral_public_key),
                                  our_keys.private_key, platform)
    IN
    IF td.sdk_ephemeral_public_key = None THEN
        /\ inflight' = [inflight EXCEPT ![s] = Idle]
        /\ out' = Some(ChallengeError(400, cur.kid, "Missing ephemeral keys for ECDH"))
    ELSE IF enc \notin {"A128CBC-HS256", "A128GCM"} THEN
        /\ inflight' = [inflight EXCEPT ![s] = Idle]
        /\ out' = Some(ChallengeError(400, cur.kid, "Unsupported encryption algorithm"))
    ELSE IF ~derived_key.ok THEN
        /\ inflight' = [inflight EXCEPT ![s] = Idle]
        /\ out' = Some([ChallengeError(400, cur.kid, "Failed to derive shared key")
                            EXCEPT !.crypto = << "calculate_derived_key" >>])
    ELSE IF ~decrypt_ok THEN
        /\ inflight' = [inflight EXCEPT ![s] = Idle]
        /\ out' = Some([ChallengeError(400, cur.kid, "Failed to decrypt challenge request")
                            EXCEPT !.crypto = << "calculate_derived_key",
                                                 "decrypt_challenge_request" >>])
    ELSE IF cde = None THEN
        /\ inflight' = [inflight EXCEPT ![s] = Idle]
        /\ out' = Some(jose(PromptCRes(cur.kid, enc, k, td), Unwrap(derived_key.value), iv_seed))
    ELSE
        /\ inflight' = [inflight EXCEPT ![s] =
              [cur EXCEPT !.pc = "r_get", !.enc = enc, !.keys = {},
                          !.rreq = Some(SynthesisedRReq(k, td, user_otp(Unwrap(cde)), "2.2.0")),
                          !.derived_key = Unwrap(derived_key.value), !.iv_seed = iv_seed]]
        /\ out' = None

\* Variant: the key is derived first and the header's enc is looked at afterwards.
challenge_found_enc_after_derive(s, k, td, enc, decrypt_ok, cde, iv_seed) ==
    LET cur == inflight[s]
        platform == IF enc = "A128CBC-HS256" THEN "android" ELSE "ios"
        derived_key ==
            calculate_derived_key(Unwrap(td.sdk_ephemeral_public_key),
                                  Unwrap(td.ephemeral_keys).private_key, platform)
    IN
    IF td.sdk_ephemeral_public_key = None \/ td.ephemeral_keys = None THEN
        /\ inflight' = [inflight EXCEPT ![s] = Idle]
        /\ out' = Some(ChallengeError(400, cur.kid, "Missing ephemeral keys for ECDH"))
    ELSE IF ~derived_key.ok THEN
        /\ inflight' = [inflight EXCEPT ![s] = Idle]
        /\ out' = Some([ChallengeError(400, cur.kid, "Failed to derive shared key")
                            EXCEPT !.crypto = << "calculate_derived_key" >>])
    ELSE IF enc \notin {"A128CBC-HS256", "A128GCM"} THEN
        /\ inflight' = [inflight EXCEPT ![s] = Idle]
        /\ out' = Some([ChallengeError(400, cur.kid, "Unsupported encryption algorithm")
                            EXCEPT !.crypto = << "calculate_derived_key" >>])
    ELSE IF ~decrypt_ok THEN
        /\ inflight' = [inflight EXCEPT ![s] = Idle]
        /\ out' = Some([ChallengeError(400, cur.kid, "Failed to decrypt challenge request")
                            EXCEPT !.crypto = << "calculate_derived_key",
                                                 "decrypt_challenge_request" >>])
    ELSE IF cde = None THEN
        /\ inflight' = [inflight EXCEPT ![s] = Idle]
        /\ out' = Some(jose(PromptCRes(cur.kid, enc, k, td), Unwrap(derived_key.value), iv_seed))
    ELSE
        /\ inflight' = [inflight EXCEPT ![s] =
              [cur EXCEPT !.pc = "r_get", !.enc = enc, !.keys = {},
                          !.rreq = Some(SynthesisedRReq(k, td, user_otp(Unwrap(cde)), "2.2.0")),
                          !.derived_key = Unwrap(derived_key.value), !.iv_seed = iv_seed]]
        /\ out' = None

\* Variant: a CReq without challengeDataEntry is taken as the submission of an
\* empty OTP.
challenge_found_prompt_submits(s, k, td, enc, decrypt_ok, cde, iv_seed) ==
    LET cur == inflight[s]
        platform == IF enc = "A128CBC-HS256" THEN "android" ELSE "ios"
        derived_key ==
            calculate_derived_key(Unwrap(td.sdk_ephemeral_public_key),
                                  Unwrap(td.ephemeral_keys).private_key, platform)
    IN
    IF td.sdk_ephemeral_public_key = None \/ td.ephemeral_keys = None THEN
        /\ inflight' = [inflight EXCEPT ![s] = Idle]
        /\ out' = Some(ChallengeError(400, cur.kid, "Missing ephemeral keys for ECDH"))
    ELSE IF enc \notin {"A128CBC-HS256", "A128GCM"} THEN
        /\ inflight' = [inflight EXCEPT ![s] = Idle]
        /\ out' = Some(ChallengeError(400, cur.kid, "Unsupported encryption algorithm"))
    ELSE IF ~derived_key.ok THEN
        /\ inflight' = [inflight EXCEPT ![s] = Idle]
        /\ out' = Some([ChallengeError(400, cur.kid, "Failed to derive shared key")
                            EXCEPT !.crypto = << "calculate_derived_key" >>])
    ELSE IF ~decrypt_ok THEN
        /\ inflight' = [inflight EXCEPT ![s] = Idle]
        /\ out' = Some([ChallengeError(400, cur.kid, "Failed to decrypt challenge request")
                            EXCEPT !.crypto = << "calculate_derived_key",
                                                 "decrypt_challenge_request" >>])
    ELSE IF cde = None /\ enc = "" THEN
        /\ inflight' = [inflight EXCEPT ![s] = Idle]
        /\ out' = Some(jose(PromptCRes(cur.kid, enc, k, td), Unwrap(derived_key.value), iv_seed))
    ELSE
        /\ inflight' = [inflight EXCEPT ![s] =
              [cur EXCEPT !.pc = "r_get", !.enc = enc, !.keys = {},
                          !.rreq = Some(SynthesisedRReq(k, td, IF cde = None THEN "" ELSE user_otp(Unwrap(cde)), "2.2.0")),
                          !.derived_key = Unwrap(derived_key.value), !.iv_seed = iv_seed]]
        /\ out' = None

\* The record find_by_acs_trans_id returned is (k, td): the rest of challenge_handler
\* up to its next command. enc: the header's enc; decrypt_ok: the JWE decrypts under
\* the derived key; cde: challengeDataEntry of the decrypted CReq; iv_seed: the
\* random IV the response is encrypted with.
challenge_found(s, k, td, enc, decrypt_ok, cde, iv_seed) ==
    LET cur == inflight[s]
        platform == IF enc = "A128CBC-HS256" THEN "android" ELSE "ios"
        derived_key ==
            calculate_derived_key(Unwrap(td.sdk_ephemeral_public_key),
                                  Unwrap(td.ephemeral_keys).private_key, platform)
    IN
    IF td.sdk_ephemeral_public_key = None \/ td.ephemeral_keys = None THEN
        /\ inflight' = [inflight EXCEPT ![s] = Idle]
        /\ out' = Some(ChallengeError(400, cur.kid, "Missing ephemeral keys for ECDH"))
    ELSE IF enc \notin {"A128CBC-HS256", "A128GCM"} THEN
        /\ inflight' = [inflight EXCEPT ![s] = Idle]
        /\ out' = Some(ChallengeError(400, cur.kid, "Unsupported encryption algorithm"))
    ELSE IF ~derived_key.ok THEN
        /\ inflight' = [inflight EXCEPT ![s] = Idle]
        /\ out' = Some([ChallengeError(400, cur.kid, "Failed to derive shared key")
                            EXCEPT !.crypto = << "calculate_derived_key" >>])
    ELSE IF ~decrypt_ok THEN
        /\ inflight' = [inflight EXCEPT ![s] = Idle]
        /\ out' = Some([ChallengeError(400, cur.kid, "Failed to decrypt challenge request")
                            EXCEPT !.crypto = << "calculate_derived_key",
                                                 "decrypt_challenge_request" >>])
    ELSE IF cde = None THEN
        /\ inflight' = [inflight EXCEPT ![s] = Idle]
        /\ out' = Some(jose(PromptCRes(cur.kid, enc, k, td), Unwrap(derived_key.value), iv_seed))
    ELSE
        /\ inflight' = [inflight EXCEPT ![s] =
              [cur EXCEPT !.pc = "r_get", !.enc = enc, !.keys = {},
                          !.rreq = Some(SynthesisedRReq(k, td, user_otp(Unwrap(cde)), "2.2.0")),
                          !.derived_key = Unwrap(derived_key.value), !.iv_seed = iv_seed]]
        /\ out' = None

\* Variant: the loop compares the record's dsTransID with the id asked for.
find_by_ds_trans_id(r, keys, k, acs_trans_id) ==
    LET result == get(r, k) IN
    IF result # None /\ Unwrap(result).ds_trans_id = acs_trans_id
    THEN [ returns |-> TRUE, value |-> Some(<< k, Unwrap(result) >>), keys |-> {} ]
    ELSE IF keys = {k}
    THEN [ returns |-> TRUE, value |-> None, keys |-> {} ]
    ELSE [ returns |-> FALSE, value |-> None, keys |-> keys \ {k} ]

\* find_by_acs_trans_id, one turn of its loop: the GET of key k, one of the keys
\* that KEYS returned and that are still to be read. The result is Some((k, data))
\* on a match, None after the last key, and otherwise the loop goes on.
find_by_acs_trans_id(r, keys, k, acs_trans_id) ==
    LET result == get(r, k) IN
    IF result # None /\ Unwrap(result).acs_trans_id = acs_trans_id
    THEN [ returns |-> TRUE, value |-> Some(<< k, Unwrap(result) >>), keys |-> {} ]
    ELSE IF keys = {k}
    THEN [ returns |-> TRUE, value |-> None, keys |-> {} ]
    ELSE [ returns |-> FALSE, value |-> None, keys |-> keys \ {k} ]

\* One GET of find_by_acs_trans_id (the keys are read in whatever order KEYS listed
\* them), and when it returns, the handler's continuation.
challenge_scan(s, k, backend_ok, enc, decrypt_ok, cde, iv_seed) ==
    LET cur == inflight[s]
        found == find_by_acs_trans_id(redis, cur.keys, k, cur.kid)
    IN
    /\ cur.pc = "scan"
    /\ k \in cur.keys
    /\ IF ~backend_ok THEN
          /\ inflight' = [inflight EXCEPT ![s] = Idle]
          /\ out' = Some(ChallengeError(500, cur.kid, "Internal server error"))
       ELSE IF found.returns /\ found.value # None THEN
          challenge_found(s, Unwrap(found.value)[1], Unwrap(found.value)[2],
                          enc, decrypt_ok, cde, iv_seed)
       ELSE IF found.returns THEN
          /\ inflight' = [inflight EXCEPT ![s] = Idle]
          /\ out' = Some(ChallengeError(404, cur.kid, "Transaction not found"))
       ELSE
          /\ inflight' = [inflight EXCEPT ![s].keys = found.keys]
          /\ out' = None
    /\ UNCHANGED << redis, ttl, minted, rrSource, written, sinceWrite, areqs >>

ChallengeScan ==
    /\ Ready
    /\ \E s \in Slots, k \in Keys, backend_ok \in BOOLEAN,
       enc \in Encs, decrypt_ok \in BOOLEAN, cde \in ChallengeDataEntries,
       iv_seed \in { FirstIvSeed } :
        challenge_scan(s, k, backend_ok, enc, decrypt_ok, cde, iv_seed)
    /\ UNCHANGED creq0Seen
    /\ UNCHANGED << log_level, codec, retry >>

\* ChallengeScan, keeping the history of the acsTransIDs whose CReq#0 was answered
\* with the OTP prompt.
ChallengeScanObserved ==
    /\ Ready
    /\ \E s \in Slots, k \in Keys, backend_ok \in BOOLEAN,
       enc \in Encs, decrypt_ok \in BOOLEAN, cde \in ChallengeDataEntries,
       iv_seed \in { FirstIvSeed } :
        /\ challenge_scan(s, k, backend_ok, enc, decrypt_ok, cde, iv_seed)
        /\ creq0Seen' =
              IF out' # None /\ Unwrap(out').kind = "challenge" /\ Unwrap(out').branch = "prompt"
              THEN creq0Seen \cup { inflight[s].kid }
              ELSE creq0Seen
    /\ UNCHANGED << log_level, codec, retry >>

\* ------------------------------------------------------------------ /3ds/final
\* Variant: /3ds/final echoes the eci of the ARes ("05"), not the one of the RReq.
FinalResponse_ares_eci(k, got, backend_ok) ==
    IF ~backend_ok THEN ErrorResponse("final", 500, k, "Failed to retrieve transaction data")
    ELSE IF got = None THEN ErrorResponse("final", 400, k, "Transaction not found")
    ELSE IF Unwrap(got).results_request = None
    THEN ErrorResponse("final", 400, k, "Results not found for this transaction")
    ELSE [ kind |-> "final", status |-> 200, three_ds_server_trans_id |-> k,
           error |-> "",
           eci |-> "05",
           authentication_value |-> Unwrap(Unwrap(got).results_request).authentication_value,
           trans_status |-> Unwrap(Unwrap(got).results_request).trans_status,
           results_request |-> Unwrap(Unwrap(got).results_request) ]

\* Variant: /3ds/final answers 404 when there is no record.
FinalResponse_not_found_404(k, got, backend_ok) ==
    IF ~backend_ok THEN ErrorResponse("final", 500, k, "Failed to retrieve transaction data")
    ELSE IF got = None THEN ErrorResponse("final", 404, k, "Transaction not found")
    ELSE IF Unwrap(got).results_request = None
    THEN ErrorResponse("final", 400, k, "Results not found for this transaction")
    ELSE [ kind |-> "final", status |-> 200, three_ds_server_trans_id |-> k,
           error |-> "",
           eci |-> Unwrap(Unwrap(got).results_request).eci,
           authentication_value |-> Unwrap(Unwrap(got).results_request).authentication_value,
           trans_status |-> Unwrap(Unwrap(got).results_request).trans_status,
           results_request |-> Unwrap(Unwrap(got).results_request) ]

\* What /3ds/final answers when its state.get returned `got` (backend_ok: it did
\* not fail).
FinalResponse(k, got, backend_ok) ==
    IF ~backend_ok THEN ErrorResponse("final", 500, k, "Failed to retrieve transaction data")
    ELSE IF got = None THEN ErrorResponse("final", 400, k, "Transaction not found")
    ELSE IF Unwrap(got).results_request = None
    THEN ErrorResponse("final", 400, k, "Results not found for this transaction")
    ELSE [ kind |-> "final", status |-> 200, three_ds_server_trans_id |-> k,
           error |-> "",
           eci |-> Unwrap(Unwrap(got).results_request).eci,
           authentication_value |-> Unwrap(Unwrap(got).results_request).authentication_value,
           trans_status |-> Unwrap(Unwrap(got).results_request).trans_status,
           results_request |-> Unwrap(Unwrap(got).results_request) ]

final_handler(k, backend_ok) ==
    /\ out' = Some(FinalResponse(k, get(redis, k), backend_ok))
    /\ UNCHANGED << redis, ttl, minted, inflight, rrSource, creq0Seen, written, sinceWrite, areqs >>

Final ==
    /\ Ready
    /\ \E k \in Keys, backend_ok \in BOOLEAN : final_handler(k, backend_ok)
    /\ UNCHANGED << log_level, codec, retry >>

\* ------------------------------------------------------------------ trigger-otp
\* creq: the threeDSServerTransID of the form's creq JSON (None: not valid JSON).
acs_trigger_otp_handler(creq, query, backend_ok) ==
    LET got == get(redis, Unwrap(creq))
        redirect_url ==
            IF query # None THEN Unwrap(query)
            ELSE IF backend_ok /\ got # None /\ Unwrap(got).redirect_url # None
                 THEN Unwrap(Unwrap(got).redirect_url)
            ELSE "https://juspay.api.in.end"
    IN
    /\ out' = Some(
          IF creq = None
          THEN [ kind |-> "trigger", status |-> 400, pay_endpoint_redirect |-> "" ]
          ELSE [ kind |-> "trigger", status |-> 200, pay_endpoint_redirect |-> redirect_url ])
    /\ UNCHANGED << redis, ttl, minted, inflight, rrSource, creq0Seen, written, sinceWrite, areqs >>

TriggerOtp ==
    /\ Ready
    /\ \E creq \in VerifyIds, query \in RedirectQueries, backend_ok \in BOOLEAN :
        acs_trigger_otp_handler(creq, query, backend_ok)
    /\ UNCHANGED << log_level, codec, retry >>

\* ------------------------------------------------------------------ specification
Next ==
    \/ Tick
    \/ Authenticate
    \/ Results
    \/ ResultsGet
    \/ ResultsUpdateExists
    \/ ResultsUpdateSetex
    \/ VerifyOtp
    \/ Challenge
    \/ ChallengeScan
    \/ Final
    \/ TriggerOtp
    \/ Deliver

Spec == Init /\ [][Next]_vars

\* ------------------------------------------------------------------ the endpoints by client
\* What the 3DS requestor calls: /3ds/authenticate, /3ds/results and /3ds/final,
\* with key expiry.
NextStore ==
    \/ Tick
    \/ Authenticate
    \/ Results
    \/ ResultsUpdateExists
    \/ ResultsUpdateSetex
    \/ Final
    \/ Deliver

SpecStore == Init /\ [][NextStore]_vars

\* What the SDK's flow runs: /3ds/authenticate, /challenge and the /3ds/results
\* it calls, with key expiry.
NextMobile ==
    \/ Tick
    \/ Authenticate
    \/ Challenge
    \/ ChallengeScan
    \/ ResultsGet
    \/ ResultsUpdateExists
    \/ ResultsUpdateSetex
    \/ Deliver

SpecMobile == Init /\ [][NextMobile]_vars

\* What the browser's flow runs: /3ds/authenticate, the ACS pages, the
\* /3ds/results verify-otp calls, and /3ds/final, with key expiry.
NextBrowser ==
    \/ Tick
    \/ Authenticate
    \/ VerifyOtp
    \/ TriggerOtp
    \/ ResultsGet
    \/ ResultsUpdateExists
    \/ ResultsUpdateSetex
    \/ Final
    \/ Deliver

SpecBrowser == Init /\ [][NextBrowser]_vars

\* The SDK's flow without key expiry, with the history of the prompts answered.
NextOrder ==
    \/ Authenticate
    \/ Challenge
    \/ ChallengeScanObserved
    \/ ResultsGet
    \/ ResultsUpdateExists
    \/ ResultsUpdateSetex
    \/ Deliver

SpecOrder == Init /\ [][NextOrder]_vars

\* ------------------------------------------------------------------ /3ds/authenticate over every AReq
\* Card numbers: one ending in 4001, one without 4001, one with 4001 not at the end.
AllAcctNumbers == { <<4,0,0,0,4,0,0,1>>, <<4,0,0,0,0,0,0,2>>, <<4,0,0,1,0,0,0,2>> }

\* Mobile AReqs that carry no sdkTransId.
MobileAReqsWithoutSdk ==
    { AuthenticateRequest(k, "01", ind, <<4,0,0,0,4,0,0,1>>, None, Some(SdkPublicJwk)) :
        k \in Keys, ind \in ChallengeInds }

\* Browser and mobile AReqs that pass the mobile prerequisite, with every
\* challengeInd and card number.
AcceptableAReqs ==
    { AuthenticateRequest(k, "02", ind, acct, None, None) :
        k \in Keys, ind \in ChallengeInds, acct \in AllAcctNumbers }
    \cup
    { AuthenticateRequest(k, "01", ind, acct, Some("sdk-uuid"), Some(SdkPublicJwk)) :
        k \in Keys, ind \in ChallengeInds, acct \in AllAcctNumbers }

AllAReqs == AcceptableAReqs \cup MobileAReqsWithoutSdk

AuthenticateAll ==
    /\ Ready
    /\ \E req \in AllAReqs, signed_ok \in BOOLEAN, backend_ok \in BOOLEAN :
        authenticate_handler(req, signed_ok, backend_ok)
    /\ UNCHANGED << log_level, codec, retry >>

\* /3ds/authenticate alone, with key expiry: the flow engine's entry point.
NextARes ==
    \/ Tick
    \/ AuthenticateAll
    \/ Deliver

SpecARes == Init /\ [][NextARes]_vars

\* ------------------------------------------------------------------ both challenge paths over every OTP
\* The otp form field of verify-otp: any string.
AllOtps == { "1234", "0000", "", "12345" }

\* challengeDataEntry: absent, a JSON string, a JSON number, or null.
AllChallengeDataEntries ==
    { None } \cup { Some(JsonString(o)) : o \in AllOtps }
    \cup { Some(JsonNumber("1234")), Some(JsonNull) }

VerifyOtpAll ==
    /\ Ready
    /\ \E id \in VerifyIds, otp \in AllOtps, query \in RedirectQueries, backend_ok \in BOOLEAN :
        acs_verify_otp_handler(id, otp, query, backend_ok)
    /\ UNCHANGED << log_level, codec, retry >>

ChallengeScanAll ==
    /\ Ready
    /\ \E s \in Slots, k \in Keys, backend_ok \in BOOLEAN,
       enc \in Encs, decrypt_ok \in BOOLEAN, cde \in AllChallengeDataEntries,
       iv_seed \in IvSeeds :
        challenge_scan(s, k, backend_ok, enc, decrypt_ok, cde, iv_seed)
    /\ UNCHANGED creq0Seen
    /\ UNCHANGED << log_level, codec, retry >>

\* The two challenge paths and the /3ds/results they call, without key expiry.
NextOtp ==
    \/ Authenticate
    \/ VerifyOtpAll
    \/ Challenge
    \/ ChallengeScanAll
    \/ ResultsGet
    \/ ResultsUpdateExists
    \/ ResultsUpdateSetex
    \/ Deliver

SpecOtp == Init /\ [][NextOtp]_vars

\* ------------------------------------------------------------------ the flow engine at every log level
\* The filters env_logger can be initialised with (RUST_LOG or server.log_level).
LogLevels == { "error", "info", "debug", "trace" }

\* acctNumber is a String of any length: here one of three characters.
ShortAcctNumbers == { <<4,0,1>> }

FlowAReqs ==
    AReqs \cup
    { AuthenticateRequest(k, "02", "01", acct, None, None) :
        k \in Keys, acct \in ShortAcctNumbers }

InitFlow ==
    /\ InitStore
    /\ log_level \in LogLevels
    /\ codec = NoCalls
    /\ retry = NoRetry

AuthenticateFlow ==
    /\ Ready
    /\ \E req \in FlowAReqs, signed_ok \in BOOLEAN, backend_ok \in BOOLEAN :
        authenticate_handler(req, signed_ok, backend_ok)
    /\ UNCHANGED << log_level, codec, retry >>

\* /3ds/authenticate, /3ds/results and /3ds/final, with key expiry.
NextFlow ==
    \/ Tick
    \/ AuthenticateFlow
    \/ Results
    \/ ResultsUpdateExists
    \/ ResultsUpdateSetex
    \/ Final
    \/ Deliver

SpecFlow == InitFlow /\ [][NextFlow]_vars

\* ------------------------------------------------------------------ the records of every kind of AReq
\* The AReqs behind the records the store can hold: browser requests decided as
\* challenge (with and without an sdkTransId in the body) and as frictionless,
\* mobile requests decided as challenge and as frictionless, and a mobile request
\* without sdkTransId.
RecordAReqs ==
    { AuthenticateRequest(k, "02", "01", <<4,0,0,0,4,0,0,1>>, sdk, None) :
        k \in Keys, sdk \in SdkTransIds }
    \cup
    { AuthenticateRequest(k, "02", "01", <<4,0,0,0,0,0,0,2>>, None, None) : k \in Keys }
    \cup
    { AuthenticateRequest(k, "01", ind, <<4,0,0,0,0,0,0,2>>, Some("sdk-uuid"), Some(SdkPublicJwk)) :
        k \in Keys, ind \in {"04", "05"} }
    \cup
    { AuthenticateRequest(k, "01", "04", <<4,0,0,0,0,0,0,2>>, None, Some(SdkPublicJwk)) :
        k \in Keys }

AuthenticateRecord ==
    /\ Ready
    /\ \E req \in RecordAReqs : authenticate_handler(req, TRUE, TRUE)
    /\ UNCHANGED << log_level, codec, retry >>

\* Every endpoint that reads or writes a record.
NextRecord ==
    \/ AuthenticateRecord
    \/ Results
    \/ ResultsGet
    \/ ResultsUpdateExists
    \/ ResultsUpdateSetex
    \/ VerifyOtp
    \/ Challenge
    \/ ChallengeScan
    \/ Deliver

SpecRecord == Init /\ [][NextRecord]_vars

\* ------------------------------------------------------------------ the outcome of a challenge
\* Both challenge paths over every OTP, the /3ds/results they call and /3ds/final,
\* without /3ds/results from outside and without key expiry.
NextOutcome ==
    \/ AuthenticateRecord
    \/ VerifyOtpAll
    \/ Challenge
    \/ ChallengeScanAll
    \/ ResultsGet
    \/ ResultsUpdateExists
    \/ ResultsUpdateSetex
    \/ Final
    \/ Deliver

SpecOutcome == Init /\ [][NextOutcome]_vars

\* ------------------------------------------------------------------ with_retry
\* const MAX_RETRIES and the unit of the back-off, in milliseconds.
MAX_RETRIES == 3
BackoffMillis == 100

\* The operations of the StateStore, and what one run of the closure they hand
\* to with_retry can end with: Ok, or a StateError.
StoreOperations == { "insert", "get", "update", "delete", "find_by_acs_trans_id" }
Outcomes == { "Ok", "Redis", "Pool", "NotFound", "Serialization" }

\* Variant: every error is tried again, NotFound and serialisation errors included.
with_retry_any_error(r, outcome) ==
    IF outcome = "Ok" THEN
        [r EXCEPT !.pc = "returned", !.outcomes = Append(r.outcomes, outcome),
                  !.result = Ok(r.operation)]
    ELSE IF r.attempt < MAX_RETRIES THEN
        [r EXCEPT !.attempt = r.attempt + 1, !.outcomes = Append(r.outcomes, outcome),
                  !.slept = Append(r.slept, BackoffMillis * r.attempt)]
    ELSE
        [r EXCEPT !.pc = "returned", !.outcomes = Append(r.outcomes, outcome),
                  !.result = Err(outcome)]

\* Variant: the back-off is the same after every failure.
with_retry_flat_backoff(r, outcome) ==
    IF outcome = "Ok" THEN
        [r EXCEPT !.pc = "returned", !.outcomes = Append(r.outcomes, outcome),
                  !.result = Ok(r.operation)]
    ELSE IF outcome \in { "Redis", "Pool" } /\ r.attempt < MAX_RETRIES THEN
        [r EXCEPT !.attempt = r.attempt + 1, !.outcomes = Append(r.outcomes, outcome),
                  !.slept = Append(r.slept, BackoffMillis)]
    ELSE
        [r EXCEPT !.pc = "returned", !.outcomes = Append(r.outcomes, outcome),
                  !.result = Err(outcome)]

\* with_retry, one turn of its loop: operation().await ended with outcome.
with_retry(r, outcome) ==
    IF outcome = "Ok" THEN
        [r EXCEPT !.pc = "returned", !.outcomes = Append(r.outcomes, outcome),
                  !.result = Ok(r.operation)]
    ELSE IF outcome \in { "Redis", "Pool" } /\ r.attempt < MAX_RETRIES THEN
        [r EXCEPT !.attempt = r.attempt + 1, !.outcomes = Append(r.outcomes, outcome),
                  !.slept = Append(r.slept, BackoffMillis * r.attempt)]
    ELSE
        [r EXCEPT !.pc = "returned", !.outcomes = Append(r.outcomes, outcome),
                  !.result = Err(outcome)]

\* A store operation enters with_retry.
StoreCall ==
    /\ Ready
    /\ retry.pc \in { "idle", "done" }
    /\ \E operation \in StoreOperations :
          retry' = [ pc |-> "loop", operation |-> operation, attempt |-> 1,
                     outcomes |-> << >>, slept |-> << >>, result |-> None ]
    /\ UNCHANGED << redis, ttl, minted, inflight, out, rrSource, creq0Seen, written,
                    sinceWrite, areqs, log_level, codec >>

\* The closure runs once against the backend.
BackendAttempt ==
    /\ retry.pc = "loop"
    /\ \E outcome \in Outcomes :
          /\ outcome = "NotFound" => retry.operation = "update"
          /\ retry' = with_retry(retry, outcome)
    /\ UNCHANGED << redis, ttl, minted, inflight, out, rrSource, creq0Seen, written,
                    sinceWrite, areqs, log_level, codec >>

\* state.insert returns to authenticate_handler.
ReturnToAuthenticate ==
    /\ retry.pc = "returned"
    /\ retry.operation = "insert"
    /\ \E req \in AReqs \cap AcceptableAReqs :
          authenticate_handler(req, TRUE, retry.result.ok)
    /\ retry' = [retry EXCEPT !.pc = "done"]
    /\ UNCHANGED << log_level, codec >>

\* state.get returns to final_handler.
ReturnToFinal ==
    /\ retry.pc = "returned"
    /\ retry.operation = "get"
    /\ \E k \in Keys : final_handler(k, retry.result.ok)
    /\ retry' = [retry EXCEPT !.pc = "done"]
    /\ UNCHANGED << log_level, codec >>

\* The other operations return to their callers.
ReturnToCaller ==
    /\ retry.pc = "returned"
    /\ retry.operation \notin { "insert", "get" }
    /\ retry' = [retry EXCEPT !.pc = "done"]
    /\ UNCHANGED << redis, ttl, minted, inflight, out, rrSource, creq0Seen, written,
                    sinceWrite, areqs, log_level, codec >>

DeliverRetried ==
    /\ out # None
    /\ out' = None
    /\ retry' = NoRetry
    /\ UNCHANGED << redis, ttl, minted, inflight, rrSource, creq0Seen, written,
                    sinceWrite, areqs, log_level, codec >>

\* The store operations of /3ds/authenticate and /3ds/final under with_retry.
NextRetry ==
    \/ StoreCall
    \/ BackendAttempt
    \/ ReturnToAuthenticate
    \/ ReturnToFinal
    \/ ReturnToCaller
    \/ DeliverRetried

SpecRetry == Init /\ [][NextRetry]_vars

\* ------------------------------------------------------------------ /challenge and its records
\* An SDK public key that is well-formed JSON and base64url but not a point of the curve.
OffCurveJwk ==
    to_string([ kty |-> "EC", crv |-> "P-256",
                x |-> Some(URL_SAFE_NO_PAD_encode(Bytes(32, GroupGen))),
                y |-> Some(URL_SAFE_NO_PAD_encode(Bytes(32, 0))) ])

\* The AReqs behind the records /challenge can find: a browser challenge, a mobile
\* challenge with its SDK key, one without, one whose SDK key is no point of the
\* curve, and a frictionless mobile request.
ChallengeAReqs ==
    { AuthenticateRequest(k, "02", "01", <<4,0,0,0,4,0,0,1>>, None, None) : k \in Keys }
    \cup
    { AuthenticateRequest(k, "01", ind, <<4,0,0,0,0,0,0,2>>, Some("sdk-uuid"), jwk) :
        k \in Keys, ind \in {"04", "05"}, jwk \in SdkJwks }
    \cup
    { AuthenticateRequest(k, "01", "04", <<4,0,0,0,0,0,0,2>>, Some("sdk-uuid"), Some(OffCurveJwk)) :
        k \in Keys }

AuthenticateChallenge ==
    /\ Ready
    /\ \E req \in ChallengeAReqs : authenticate_handler(req, TRUE, TRUE)
    /\ UNCHANGED << log_level, codec, retry >>

ChallengeScanIv ==
    /\ Ready
    /\ \E s \in Slots, k \in Keys, backend_ok \in BOOLEAN,
       enc \in Encs, decrypt_ok \in BOOLEAN, cde \in ChallengeDataEntries,
       iv_seed \in IvSeeds :
        challenge_scan(s, k, backend_ok, enc, decrypt_ok, cde, iv_seed)
    /\ UNCHANGED creq0Seen
    /\ UNCHANGED << log_level, codec, retry >>

\* /3ds/authenticate, then /challenge with the /3ds/results it calls.
NextChallenge ==
    \/ AuthenticateChallenge
    \/ Challenge
    \/ ChallengeScanIv
    \/ ResultsGet
    \/ ResultsUpdateExists
    \/ ResultsUpdateSetex
    \/ Deliver

SpecChallenge == Init /\ [][NextChallenge]_vars

\* ------------------------------------------------------------------ the crypto library on its own
\* 32-byte keys as two 16-byte blocks: equal halves and different halves.
Keys32 == { << a, b >> : a \in { 0, 1 }, b \in { 0, 1 } }

\* Two key pairs are generated, one on each side.
GenerateKeyPairs ==
    /\ codec.sdk_keys = None
    /\ \E a \in Scalars, b \in Scalars, platform \in Platforms :
          codec' = [codec EXCEPT !.sdk_keys = Some(generate_ephemeral_key_pair(a)),
                                 !.acs_keys = Some(generate_ephemeral_key_pair(b)),
                                 !.platform = platform]
    /\ UNCHANGED << redis, ttl, minted, inflight, out, rrSource, creq0Seen, written,
                    sinceWrite, areqs, log_level, retry >>

\* Both sides derive the key from the other side's public JWK and their own private key.
DeriveKeys ==
    /\ codec.sdk_keys # None
    /\ codec.derived_key_1 = None
    /\ codec' = [codec EXCEPT
          !.derived_key_1 = Some(calculate_derived_key(
                to_string(Unwrap(codec.sdk_keys).public_key),
                Unwrap(codec.acs_keys).private_key, codec.platform)),
          !.derived_key_2 = Some(calculate_derived_key(
                to_string(Unwrap(codec.acs_keys).public_key),
                Unwrap(codec.sdk_keys).private_key, codec.platform))]
    /\ UNCHANGED << redis, ttl, minted, inflight, out, rrSource, creq0Seen, written,
                    sinceWrite, areqs, log_level, retry >>

\* A message is encrypted for the platform, under the derived key or under any
\* other 32-byte key.
EncryptResponse ==
    /\ codec.derived_key_1 # None
    /\ Unwrap(codec.derived_key_1).ok
    /\ codec.jwe = None
    /\ \E m \in Messages, kid \in CodecKids, iv_seed \in IvSeeds,
          key \in Keys32 \cup { Unwrap(Unwrap(codec.derived_key_1).value) } :
          codec' = [codec EXCEPT
              !.message = Some(m), !.kid = kid, !.key = key,
              !.jwe = Some(encrypt_challenge_response(m, kid, key, codec.platform, iv_seed))]
    /\ UNCHANGED << redis, ttl, minted, inflight, out, rrSource, creq0Seen, written,
                    sinceWrite, areqs, log_level, retry >>

\* The JWE is decrypted under the key it was encrypted with.
DecryptRequest ==
    /\ codec.jwe # None
    /\ Unwrap(codec.jwe).ok
    /\ codec.decrypted = None
    /\ codec' = [codec EXCEPT
          !.decrypted = Some(decrypt_challenge_request(Unwrap(Unwrap(codec.jwe).value),
                                                       codec.key))]
    /\ UNCHANGED << redis, ttl, minted, inflight, out, rrSource, creq0Seen, written,
                    sinceWrite, areqs, log_level, retry >>

NextCodec ==
    \/ GenerateKeyPairs
    \/ DeriveKeys
    \/ EncryptResponse
    \/ DecryptRequest

SpecCodec == Init /\ [][NextCodec]_vars

\* ------------------------------------------------------------------ vocabulary of the properties
Live(k) == redis[k] # None
Rec(k) == Unwrap(redis[k])
HasResults(k) == Live(k) /\ Rec(k).results_request # None
\* This step is the expiry of key k.
Expiring(k) == ttl[k] = 1 /\ ttl'[k] = 0
\* This step stores an AReq under key k.
AReqStored(k) == areqs'[k] # areqs[k]
\* (transStatus, eci, authenticationValue) of an RReq.
RReqTriple(rreq) == << rreq.trans_status, rreq.eci, rreq.authentication_value >>
\* What /3ds/final would return for k now: Some(triple), or None when it answers 400.
FinalTriple(k) ==
    LET f == FinalResponse(k, get(redis, k), TRUE) IN
    IF f.status = 200 THEN Some(<< f.trans_status, f.eci, f.authentication_value >>) ELSE None
\* The response of the last step is of the given kind.
OutIs(kind) == out # None /\ Unwrap(out).kind = kind
OutPrompt == OutIs("challenge") /\ Unwrap(out).branch = "prompt"
OutFinalCRes == OutIs("challenge") /\ Unwrap(out).branch = "final"
\* In this step the handler in slot s stores the RReq of an OTP submission for key k.
OtpStored(s, k) ==
    /\ inflight[s].pc = "r_setex"
    /\ inflight[s].kind # "results"
    /\ Unwrap(inflight[s].rreq).three_ds_server_trans_id = k
    /\ inflight'[s] = Idle
    /\ redis'[k] # redis[k] \/ ttl'[k] # ttl[k]

\* ------------------------------------------------------------------ C1
\* C1 (as stated): once the live record under k has resultsRequest set, no later
\* operation leaves the record under k with resultsRequest empty, a further
\* /3ds/authenticate with the same threeDSServerTransID included.
C1_WriteOnce ==
    [][ \A k \in Keys : (HasResults(k) /\ ~Expiring(k)) => HasResults(k)' ]_vars

\* C1 (amended): once the live record under k has resultsRequest set, no operation
\* other than a further /3ds/authenticate stored under k leaves the record under k
\* with resultsRequest empty.
C1_WriteOnceButAReq ==
    [][ \A k \in Keys :
          (HasResults(k) /\ ~Expiring(k) /\ ~AReqStored(k)) => HasResults(k)' ]_vars

\* A late CReq#0 was answered for a record whose resultsRequest is set.
C1_Witness ==
    /\ OutPrompt
    /\ HasResults(Unwrap(out).cres.three_ds_server_trans_id)

C3_OrderEnforced ==
    /\ (OutFinalCRes /\ Unwrap(out).results_rc = 200) => Unwrap(out).kid \in creq0Seen
    /\ (OutPrompt \/ OutFinalCRes) => Unwrap(out).kid \in 1..minted

\* C3 (amended): a CReq is accepted (answered with the OTP prompt, or taken on to the
\* results write and the final CRes) only when the lookup by its kid reads a live record
\* that carries both ephemeral_keys and sdk_ephemeral_public_key, which only an AReq
\* creates; the CReq#1 does not need a CReq#0 before it.
C3_RecordRequired ==
    [][ /\ \A s \in Slots :
            (/\ inflight[s].pc = "scan"
             /\ inflight'[s] # inflight[s]
             /\ inflight'[s].pc = "r_get" \/ OutPrompt')
                => \E k \in inflight[s].keys :
                      /\ Live(k)
                      /\ Rec(k).acs_trans_id = inflight[s].kid
                      /\ Rec(k).ephemeral_keys # None
                      /\ Rec(k).sdk_ephemeral_public_key # None
                      /\ Rec(k).authenticate_request.device_channel = "01"
        /\ (OutPrompt' \/ OutFinalCRes') => Unwrap(out').kid \in 1..minted' ]_vars

\* A final CRes was returned, and its RReq stored, for a transaction that never had a
\* CReq#0.
C3_Witness ==
    /\ OutFinalCRes
    /\ Unwrap(out).results_rc = 200
    /\ Unwrap(out).kid \notin creq0Seen

\* ------------------------------------------------------------------ C4
\* C4: whenever /challenge returns a final CRes with transStatus s for the transaction
\* under k, the record under k has resultsRequest.transStatus = s at that moment, also
\* when the results write failed.
C4_ResultApplied ==
    OutFinalCRes =>
        LET k == Unwrap(out).cres.three_ds_server_trans_id IN
        /\ HasResults(k)
        /\ Some(Unwrap(Rec(k).results_request).trans_status) = Unwrap(out).cres.trans_status

\* ------------------------------------------------------------------ C5
\* C5: verify-otp redirects with transStatus=U&error=processing_error on any internal
\* failure, a failed results write included; a redirect with transStatus Y or N is
\* emitted only when the synthesised RReq was stored.
C5_FailureRedirectsU ==
    OutIs("verify") =>
        /\ Unwrap(out).location.trans_status \in {"Y", "N"} => Unwrap(out).results_rc = 200
        /\ Unwrap(out).results_rc # 200 =>
              /\ Unwrap(out).location.trans_status = "U"
              /\ Unwrap(out).location.error = Some("processing_error")

\* ------------------------------------------------------------------ C6
\* C6: every verify-otp request ends in a 302; for an unparsable threeDSServerTransID,
\* a missing or expired record and a failed lookup the Location carries
\* transStatus=U&error=processing_error and the step leaves the store as it was.
C6_AlwaysRedirect ==
    [][ OutIs("verify")' =>
          /\ Unwrap(out').status = 302
          /\ Unwrap(out').branch \in {"bad_id", "get_err", "not_found"} =>
                /\ Unwrap(out').location.trans_status = "U"
                /\ Unwrap(out').location.error = Some("processing_error")
                /\ redis' = redis
                /\ ttl' = ttl ]_vars

\* verify-otp was answered for a record that expired, while another record is live.
C6_Witness ==
    /\ OutIs("verify")
    /\ Unwrap(out).branch = "not_found"
    /\ \E k \in Keys : areqs[k] > 0 /\ ~Live(k)
    /\ \E k \in Keys : Live(k)

\* ------------------------------------------------------------------ C7
\* C7: get(k) returns the value last written under k at every time before ttl_seconds
\* have passed since that write, and None at every time after.
C7_InsertGetTtl ==
    \A k \in Keys :
        get(redis, k) = IF sinceWrite[k] < TtlSeconds THEN written[k] ELSE None

\* One key still holds the record its insert wrote a second ago, while the record
\* inserted under another key is gone after its TTL.
C7_Witness ==
    \E k1, k2 \in Keys :
        /\ sinceWrite[k1] = 1 /\ Live(k1) /\ rrSource[k1] = "none"
        /\ areqs[k2] > 0 /\ sinceWrite[k2] = TtlSeconds /\ get(redis, k2) = None

\* ------------------------------------------------------------------ C8
\* C8: update on a key that is absent returns NotFound without writing: the key is
\* still unbound afterwards and every other key is unchanged.
C8_UpdateAbsent ==
    [][ \A s \in Slots :
          (/\ inflight[s].pc = "r_exists"
           /\ inflight'[s] # inflight[s]
           /\ ~Live(Unwrap(inflight[s].rreq).three_ds_server_trans_id))
          => /\ inflight'[s] = Idle
             /\ redis' = redis
             /\ ttl' = ttl
             /\ get(redis', Unwrap(inflight[s].rreq).three_ds_server_trans_id) = None
             /\ IF inflight[s].kind = "results"
                THEN Unwrap(out').status = 500
                ELSE Unwrap(out').results_rc = 500 ]_vars

\* /3ds/results answered 500 because update found the key gone.
C8_Witness ==
    /\ OutIs("results")
    /\ Unwrap(out).error = "Failed to update transaction data: Transaction not found"
    /\ ~Live(Unwrap(out).three_ds_server_trans_id)
    /\ \E k \in Keys : Live(k)

\* ------------------------------------------------------------------ C9
\* C9: the lookup by acsTransID, at each key it reads: a live record that carries the
\* id is returned with its key; whatever is returned carries the id and is the record
\* bound to the returned key; None is returned only past a key without the id. An OTP
\* prompt is returned for the key whose record carries the kid.
C9_FindByAcsTransId ==
    /\ \A s \in Slots : inflight[s].pc = "scan" =>
          \A k \in inflight[s].keys :
              LET found == find_by_acs_trans_id(redis, inflight[s].keys, k, inflight[s].kid) IN
              /\ (Live(k) /\ Rec(k).acs_trans_id = inflight[s].kid)
                    => (found.returns /\ found.value = Some(<< k, Rec(k) >>))
              /\ found.value # None =>
                    /\ Unwrap(found.value)[2].acs_trans_id = inflight[s].kid
                    /\ redis[Unwrap(found.value)[1]] = Some(Unwrap(found.value)[2])
              /\ (found.returns /\ found.value = None)
                    => ~(Live(k) /\ Rec(k).acs_trans_id = inflight[s].kid)
    /\ OutPrompt =>
          /\ Live(Unwrap(out).cres.three_ds_server_trans_id)
          /\ Rec(Unwrap(out).cres.three_ds_server_trans_id).acs_trans_id = Unwrap(out).kid

\* A lookup is under way over two keys, one whose record carries the id asked for and
\* one whose record does not.
C9_Witness ==
    \E s \in Slots :
        /\ inflight[s].pc = "scan"
        /\ \E k1, k2 \in inflight[s].keys :
              /\ Live(k1) /\ Rec(k1).acs_trans_id = inflight[s].kid
              /\ Live(k2) /\ Rec(k2).acs_trans_id # inflight[s].kid

Acts(s) == inflight'[s] # inflight[s]
\* The key the results path in slot s works on.
SlotKey(s) == Unwrap(inflight[s].rreq).three_ds_server_trans_id
\* The results path in slot s returns in this step with the given status.
ResultsReturns(s, rc) ==
    /\ inflight[s].pc \in {"r_get", "r_exists", "r_setex"}
    /\ inflight'[s] = Idle
    /\ IF inflight[s].kind = "results"
       THEN Unwrap(out').status = rc
       ELSE Unwrap(out').results_rc = rc

\* C11: the step that stores an AReq under k and the step in which an update under k
\* succeeds leave k with the configured TTL as its remaining lifetime; the steps of get,
\* of findByAcsTransId and of /3ds/final, trigger-otp and CReq#0 leave the value and the
\* remaining lifetime of every key unchanged.
C11_TtlOnWritesOnly ==
    [][ /\ \A k \in Keys : AReqStored(k) => ttl'[k] = TtlSeconds
        /\ \A s \in Slots :
              (inflight[s].pc = "r_setex" /\ ResultsReturns(s, 200))
                  => /\ ttl'[SlotKey(s)] = TtlSeconds
                     /\ redis'[SlotKey(s)] = inflight[s].td
        /\ ( \/ OutIs("final")'
             \/ OutIs("trigger")'
             \/ OutPrompt'
             \/ \E s \in Slots : Acts(s) /\ inflight[s].pc \in {"idle", "scan", "r_get"} )
            => (redis' = redis /\ ttl' = ttl) ]_vars

\* /3ds/final read a record a second into its lifetime and left it there, while the
\* record under another key has its full lifetime again after a stored RReq.
C11_Witness ==
    /\ OutIs("final")
    /\ \E k \in Keys :
          /\ k # Unwrap(out).three_ds_server_trans_id
          /\ HasResults(k)
          /\ ttl[k] = TtlSeconds
          /\ areqs[k] = 1
    /\ Live(Unwrap(out).three_ds_server_trans_id)
    /\ ttl[Unwrap(out).three_ds_server_trans_id] = TtlSeconds - 1

\* ------------------------------------------------------------------ C12
\* The TTL of the last write under k has elapsed.
Expired(k) == areqs[k] > 0 /\ sinceWrite[k] >= TtlSeconds
\* Nothing was ever inserted under k.
NeverInserted(k) == areqs[k] = 0
\* No record within its TTL carries the acsTransID.
NoRecordFor(acs_trans_id) ==
    \A k \in Keys : written[k] # None => Unwrap(written[k]).acs_trans_id # acs_trans_id
\* The store as it is when nothing was ever inserted.
EmptyStore == [k \in Keys |-> None]
\* A request is answered in the step that receives it.
AnsweredAtOnce == out = None /\ out' # None /\ inflight' = inflight

\* C12: when the TTL of the record under k has elapsed, the key is unbound as if never
\* written, and every operation issued then answers, and leaves the store, as it does
\* when nothing was ever inserted under k: get and the GET of a scan read nothing,
\* update is NotFound, /3ds/results and /3ds/final answer as on the empty store,
\* trigger-otp falls back to the default redirect, verify-otp redirects with
\* transStatus=U, and /challenge with the record's acsTransID finds nothing.
C12_ExpiredAsNeverExisted ==
    [][ /\ \A k \in Keys :
            (Expired(k) \/ NeverInserted(k)) =>
              /\ get(redis, k) = None /\ ttl[k] = 0
              /\ ~update_exists(redis, k)
              /\ \A s \in Slots :
                    (inflight[s].pc = "r_exists" /\ SlotKey(s) = k /\ Acts(s))
                        => (ResultsReturns(s, 500) /\ redis' = redis /\ ttl' = ttl)
              /\ (AnsweredAtOnce /\ OutIs("final")'
                    /\ Unwrap(out').three_ds_server_trans_id = k)
                  => /\ \E backend_ok \in BOOLEAN :
                          out' = Some(FinalResponse(k, get(EmptyStore, k), backend_ok))
                     /\ redis' = redis /\ ttl' = ttl
              /\ (AnsweredAtOnce /\ OutIs("results")'
                    /\ Unwrap(out').three_ds_server_trans_id = k)
                  => /\ Unwrap(out').status \in {400, 500}
                     /\ Unwrap(out').error \in { "Transaction not found",
                                                  "Failed to retrieve transaction data: backend" }
                     /\ redis' = redis /\ ttl' = ttl
              /\ (out = None /\ (OutIs("trigger")' \/ OutIs("verify")'
                                  \/ \E s \in Slots : Acts(s) /\ inflight'[s].kind = "verify"))
                  => /\ \A query \in RedirectQueries, backend_ok \in BOOLEAN :
                          acs_trigger_otp_handler(Some(k), query, backend_ok)
                            => /\ Unwrap(out').status = 200
                               /\ Unwrap(out').pay_endpoint_redirect = verify_redirect_url(query)
                               /\ redis' = redis /\ ttl' = ttl
                     /\ \A otp \in Otps, query \in RedirectQueries, backend_ok \in BOOLEAN :
                          acs_verify_otp_handler(Some(k), otp, query, backend_ok)
                            => /\ OutIs("verify")'
                               /\ Unwrap(out').status = 302
                               /\ Unwrap(out').location.trans_status = "U"
                               /\ Unwrap(out').location.error = Some("processing_error")
                               /\ inflight' = inflight
                               /\ redis' = redis /\ ttl' = ttl
        /\ ( /\ OutIs("challenge")'
             /\ AnsweredAtOnce \/ \E s \in Slots : inflight[s].pc = "scan" /\ Acts(s)
             /\ NoRecordFor(Unwrap(out').kid) )
            => /\ Unwrap(out').status \in {400, 404, 500}
               /\ Unwrap(out').status = 400 => Unwrap(out').branch = "Invalid kid format"
               /\ redis' = redis /\ ttl' = ttl ]_vars

\* /3ds/final answered for a key whose record got a result and then expired, while the
\* record under another key is live.
C12_Witness ==
    /\ OutIs("final")
    /\ Expired(Unwrap(out).three_ds_server_trans_id)
    /\ rrSource[Unwrap(out).three_ds_server_trans_id] = "none"
    /\ Unwrap(out).status = 400
    /\ \E k \in Keys : HasResults(k)

\* ------------------------------------------------------------------ vocabulary of the ARes properties
\* The response of the last step is a 200 ARes.
OutARes == OutIs("authenticate") /\ Unwrap(out).status = 200
\* The AReq that was answered, as the record stored under its id holds it.
OutAReq == Rec(Unwrap(out).three_ds_server_trans_id).authenticate_request
\* This step is /3ds/authenticate handling req.
AuthenticateStep(req, backend_ok) ==
    \E signed_ok \in BOOLEAN : authenticate_handler(req, signed_ok, backend_ok)

\* ------------------------------------------------------------------ C13
\* C13: for every accepted AReq the ARes has transStatus "C" and acsChallengeMandated
\* "Y" exactly when challengeInd is "04", or challengeInd is neither "04" nor "05" and
\* acctNumber ends with 4001; in every other case they are "Y" and "N".
C13_ChallengeDecision ==
    OutARes =>
        LET ind == OutAReq.three_ds_requestor_challenge_ind
            acct == OutAReq.acct_number
        IN
        IF \/ ind = "04"
           \/ ind \notin {"04", "05"} /\ SubSeq(acct, Len(acct) - 3, Len(acct)) = <<4,0,0,1>>
        THEN /\ Unwrap(out).trans_status = "C"
             /\ Unwrap(out).acs_challenge_mandated = "Y"
        ELSE /\ Unwrap(out).trans_status = "Y"
             /\ Unwrap(out).acs_challenge_mandated = "N"

\* A challenge was mandated by challengeInd "04" for a card that does not end in 4001.
C13_Witness ==
    /\ OutARes
    /\ OutAReq.three_ds_requestor_challenge_ind = "04"
    /\ OutAReq.acct_number = <<4,0,0,0,0,0,0,2>>
    /\ Unwrap(out).trans_status = "C"

\* ------------------------------------------------------------------ C14
\* C14: when the answered AReq carries challengeInd "04" or "05", every AReq that
\* differs from it only in acctNumber gets the same transStatus: "C" for "04" and "Y"
\* for "05", also for a card ending in 4001.
C14_PanIndependent ==
    (OutARes /\ OutAReq.three_ds_requestor_challenge_ind \in {"04", "05"}) =>
        /\ Unwrap(out).trans_status =
              IF OutAReq.three_ds_requestor_challenge_ind = "04" THEN "C" ELSE "Y"
        /\ \A acct \in AllAcctNumbers :
              AuthenticateResponse([OutAReq EXCEPT !.acct_number = acct],
                                   Unwrap(out).acs_trans_id, Unwrap(out).ds_trans_id,
                                   TRUE).trans_status
                  = Unwrap(out).trans_status

\* The exemption: challengeInd "05" with a card ending in 4001 was answered "Y".
C14_Witness ==
    /\ OutARes
    /\ OutAReq.three_ds_requestor_challenge_ind = "05"
    /\ OutAReq.acct_number = <<4,0,0,0,4,0,0,1>>
    /\ Unwrap(out).trans_status = "Y"
    /\ Unwrap(out).acs_operator_id = "MOCK_ACS_NEW"

\* ------------------------------------------------------------------ C15
\* C15: an AReq with deviceChannel "01" and no sdkTransId is answered 400, and the
\* step writes nothing: every key keeps its value and its remaining lifetime, and no
\* transaction id is minted into the store.
C15_MobilePrerequisite ==
    [][ \A req \in AllAReqs, backend_ok \in BOOLEAN :
          (/\ OutIs("authenticate")'
           /\ req.device_channel = "01"
           /\ req.sdk_trans_id = None
           /\ AuthenticateStep(req, backend_ok))
          => /\ Unwrap(out').status = 400
             /\ redis' = redis
             /\ ttl' = ttl
             /\ areqs' = areqs ]_vars

\* A mobile AReq without sdkTransId was rejected while a record stored by an earlier
\* AReq with the same threeDSServerTransID is live, a second into its lifetime.
C15_Witness ==
    /\ OutIs("authenticate")
    /\ Unwrap(out).status = 400
    /\ Live(Unwrap(out).three_ds_server_trans_id)
    /\ ttl[Unwrap(out).three_ds_server_trans_id] = TtlSeconds - 1

\* ------------------------------------------------------------------ C16
\* C16: a 200 ARes is returned only by a step that bound the record under
\* threeDSServerTransID, with the acsTransID and dsTransID of the ARes; when the insert
\* fails the answer is 500, not an ARes, and the store is as it was.
C16_PersistBeforeResponse ==
    [][ /\ OutARes' =>
            LET k == Unwrap(out').three_ds_server_trans_id IN
            /\ redis'[k] # None
            /\ ttl'[k] = TtlSeconds
            /\ Unwrap(redis'[k]).acs_trans_id = Unwrap(out').acs_trans_id
            /\ Unwrap(redis'[k]).ds_trans_id = Unwrap(out').ds_trans_id
            /\ Unwrap(redis'[k]).authenticate_request.three_ds_server_trans_id = k
            /\ Unwrap(redis'[k]).results_request = None
        /\ \A req \in AllAReqs :
            (/\ OutIs("authenticate")'
             /\ ~(req.device_channel = "01" /\ req.sdk_trans_id = None)
             /\ AuthenticateStep(req, FALSE))
            => /\ Unwrap(out').status = 500
               /\ redis' = redis
               /\ ttl' = ttl ]_vars

\* The insert of an AReq failed: 500, and nothing is bound under its id, while an
\* earlier AReq under another id was answered and stored.
C16_Witness ==
    /\ OutIs("authenticate")
    /\ Unwrap(out).status = 500
    /\ ~Live(Unwrap(out).three_ds_server_trans_id)
    /\ \E k \in Keys : Live(k) /\ areqs[k] = 1

\* ------------------------------------------------------------------ C17
\* C17: in an ARes the top-level acsUrl is present exactly when the decision is
\* challenge and deviceChannel is not "01", and then it is
\* <serverBase>/processor/mock/acs/trigger-otp; base64EncodedChallengeRequest is present
\* exactly when the decision is challenge.
C17_AResShape ==
    OutARes =>
        LET challenge == Unwrap(out).trans_status = "C"
            is_mobile == OutAReq.device_channel = "01"
        IN
        /\ Unwrap(out).acs_url # None <=> (challenge /\ ~is_mobile)
        /\ Unwrap(out).acs_url # None =>
              Unwrap(out).acs_url = Some(server_url \o "/processor/mock/acs/trigger-otp")
        /\ Unwrap(out).base64_encoded_challenge_request # None <=> challenge

\* A mobile challenge: the ARes carries the encoded CReq and no acsUrl.
C17_Witness ==
    /\ OutARes
    /\ OutAReq.device_channel = "01"
    /\ Unwrap(out).trans_status = "C"
    /\ Unwrap(out).acs_url = None
    /\ Unwrap(out).base64_encoded_challenge_request # None

\* ------------------------------------------------------------------ C18
\* Records a and b agree on every field but resultsRequest.
SameButResults(a, b) ==
    /\ a.authenticate_request = b.authenticate_request
    /\ a.acs_trans_id = b.acs_trans_id
    /\ a.ds_trans_id = b.ds_trans_id
    /\ a.sdk_trans_id = b.sdk_trans_id
    /\ a.ephemeral_keys = b.ephemeral_keys
    /\ a.sdk_ephemeral_public_key = b.sdk_ephemeral_public_key
    /\ a.redirect_url = b.redirect_url

\* C18: the results path for a record bound under k takes a copy of it that carries
\* the submitted RReq as resultsRequest and agrees with the record it read on
\* authenticateRequest, acsTransId, dsTransId, sdkTransId, ephemeralKeys,
\* sdkEphemeralPublicKey and redirectUrl; it keeps that copy up to its write, and its
\* write binds k to that copy and leaves every other key as it was.
C18_ResultsOverwrites ==
    [][ \A s \in Slots :
          /\ (Acts(s) /\ inflight[s].pc \in {"idle", "r_get"} /\ inflight'[s].pc = "r_exists")
              => LET k == Unwrap(inflight'[s].rreq).three_ds_server_trans_id
                     copy == Unwrap(inflight'[s].td)
                 IN /\ Live(k)
                    /\ copy.results_request = inflight'[s].rreq
                    /\ SameButResults(copy, Rec(k))
                    /\ redis' = redis /\ ttl' = ttl
          /\ (Acts(s) /\ inflight[s].pc = "r_exists" /\ inflight'[s].pc = "r_setex")
              => /\ inflight'[s].td = inflight[s].td
                 /\ inflight'[s].rreq = inflight[s].rreq
                 /\ redis' = redis /\ ttl' = ttl
          /\ (inflight[s].pc = "r_setex" /\ ResultsReturns(s, 200))
              => /\ redis'[SlotKey(s)] = inflight[s].td
                 /\ Unwrap(redis'[SlotKey(s)]).results_request = inflight[s].rreq
                 /\ \A k2 \in Keys \ {SlotKey(s)} :
                        redis'[k2] = redis[k2] /\ ttl'[k2] = ttl[k2] ]_vars

\* /3ds/results stored an RReq on a mobile challenge record, which still carries its
\* ephemeral keys, while the record under another key is live.
C18_Witness ==
    /\ OutIs("results")
    /\ Unwrap(out).status = 200
    /\ HasResults(Unwrap(out).three_ds_server_trans_id)
    /\ Unwrap(Rec(Unwrap(out).three_ds_server_trans_id).results_request).trans_status = "U"
    /\ Rec(Unwrap(out).three_ds_server_trans_id).ephemeral_keys # None
    /\ \E k \in Keys : k # Unwrap(out).three_ds_server_trans_id /\ Live(k)

\* ------------------------------------------------------------------ C19
\* C19: /3ds/final for k, unless its read fails, returns 200 with the eci,
\* authenticationValue and transStatus of the record's resultsRequest when there is
\* one, and 400 (Results not found) when the record is bound without one; in every case
\* the step leaves every value and remaining lifetime as it was.
C19_FinalPureRead ==
    [][ (AnsweredAtOnce /\ OutIs("final")') =>
          LET k == Unwrap(out').three_ds_server_trans_id
              f == Unwrap(out')
          IN
          /\ redis' = redis
          /\ ttl' = ttl
          /\ (f.status # 500 /\ HasResults(k)) =>
                /\ f.status = 200
                /\ f.eci = Unwrap(Rec(k).results_request).eci
                /\ f.authentication_value = Unwrap(Rec(k).results_request).authentication_value
                /\ f.trans_status = Unwrap(Rec(k).results_request).trans_status
          /\ (f.status # 500 /\ Live(k) /\ ~HasResults(k)) =>
                /\ f.status = 400
                /\ f.error = "Results not found for this transaction" ]_vars

\* /3ds/final returned the result of a failed OTP: transStatus N, eci 07.
C19_Witness ==
    /\ OutIs("final")
    /\ Unwrap(out).status = 200
    /\ Unwrap(out).trans_status = "N"
    /\ Unwrap(out).eci = "07"
    /\ Unwrap(out).authentication_value = generate_failed_auth_value

\* ------------------------------------------------------------------ C20
\* A /challenge request whose lookup ran without a backend error ends in this step.
ChallengeLookupEnds ==
    /\ OutIs("challenge")'
    /\ AnsweredAtOnce \/ \E s \in Slots : inflight[s].pc = "scan" /\ Acts(s)
    /\ Unwrap(out').branch \notin {"Invalid kid format", "Internal server error"}
\* No bound record carries the acsTransID.
NoLiveRecordFor(acs_trans_id) ==
    \A k \in Keys : Live(k) => Rec(k).acs_trans_id # acs_trans_id
\* /3ds/results and /3ds/final answer 400 for a key that is not bound and write nothing.
NotFoundIs400(k) ==
    /\ final_handler(k, TRUE) => (Unwrap(out').status = 400 /\ redis' = redis /\ ttl' = ttl)
    /\ \A rreq \in ExternalRReqs :
          (rreq.three_ds_server_trans_id = k /\ results_handler(rreq, TRUE))
              => (Unwrap(out').status = 400 /\ redis' = redis /\ ttl' = ttl)
\* /challenge answers 404 when no bound record carries the kid and writes nothing.
ChallengeNotFoundIs404 ==
    (ChallengeLookupEnds /\ NoLiveRecordFor(Unwrap(out').kid))
        => (Unwrap(out').status = 404 /\ redis' = redis /\ ttl' = ttl)

\* C20 (as stated): when the record addressed is missing or expired, /challenge,
\* trigger-otp and verify-otp answer 404, /3ds/results and /3ds/final answer 400, and
\* none of them writes to the store.
C20_NotFoundMapping ==
    [][ (out = None /\ out' # None) =>
          /\ ChallengeNotFoundIs404
          /\ \A k \in Keys : ~Live(k) =>
                /\ NotFoundIs400(k)
                /\ \A query \in RedirectQueries :
                      acs_trigger_otp_handler(Some(k), query, TRUE)
                        => (Unwrap(out').status = 404 /\ redis' = redis /\ ttl' = ttl)
                /\ \A otp \in Otps, query \in RedirectQueries :
                      acs_verify_otp_handler(Some(k), otp, query, TRUE)
                        => (Unwrap(out').status = 404 /\ redis' = redis /\ ttl' = ttl) ]_vars

\* C20 (amended): when the record addressed is missing or expired, /challenge answers
\* 404, /3ds/results and /3ds/final answer 400, trigger-otp answers 200 with its page
\* built on the redirectUrl query parameter or else the default redirect URL, and
\* verify-otp answers 302 with transStatus=U&error=processing_error; none of them
\* writes to the store.
C20_NotFoundByEndpoint ==
    [][ (out = None /\ out' # None) =>
          /\ ChallengeNotFoundIs404
          /\ \A k \in Keys : ~Live(k) =>
                /\ NotFoundIs400(k)
                /\ \A query \in RedirectQueries :
                      acs_trigger_otp_handler(Some(k), query, TRUE)
                        => /\ Unwrap(out').status = 200
                           /\ Unwrap(out').pay_endpoint_redirect = verify_redirect_url(query)
                           /\ redis' = redis /\ ttl' = ttl
                /\ \A otp \in Otps, query \in RedirectQueries :
                      acs_verify_otp_handler(Some(k), otp, query, TRUE)
                        => /\ Unwrap(out').status = 302
                           /\ Unwrap(out').location.trans_status = "U"
                           /\ Unwrap(out').location.error = Some("processing_error")
                           /\ redis' = redis /\ ttl' = ttl ]_vars

\* trigger-otp, without a redirectUrl parameter, answered 200 on the default redirect
\* URL for a key whose record has expired.
C20_Witness ==
    /\ OutIs("trigger")
    /\ Unwrap(out).status = 200
    /\ Unwrap(out).pay_endpoint_redirect = "https://juspay.api.in.end"
    /\ \E k \in Keys : Expired(k) /\ ~Live(k)
    /\ \E k \in Keys : Live(k)

\* ------------------------------------------------------------------ C21
\* What the OTP policy says of the result synthesised for a submitted value.
OtpPolicy(submitted, rreq) ==
    /\ (rreq.trans_status = "Y" /\ rreq.eci = "02") <=> submitted = JsonString("1234")
    /\ submitted # JsonString("1234") =>
          /\ rreq.trans_status = "N"
          /\ rreq.eci = "07"
          /\ rreq.authentication_value = "AAAAAAAAAAAAAAAAAAAAAA=="

\* C21: on the mobile CReq#1 path and on the browser verify-otp path alike, the
\* synthesised result has transStatus "Y" and eci "02" if and only if the
\* submitted OTP is exactly the string "1234"; for every other value (another
\* string, the empty string, a number, null) it has transStatus "N", eci "07"
\* and authenticationValue "AAAAAAAAAAAAAAAAAAAAAA==".
C21_OtpPolicy ==
    [][ \A s \in Slots :
          (Acts(s) /\ inflight[s].pc \in {"idle", "scan"} /\ inflight'[s].pc = "r_get") =>
            /\ \A id \in VerifyIds, otp \in AllOtps, query \in RedirectQueries :
                  acs_verify_otp_handler(id, otp, query, TRUE) =>
                      OtpPolicy(JsonString(otp), Unwrap(inflight'[s].rreq))
            /\ \A k \in Keys, enc \in Encs, cde \in AllChallengeDataEntries \ {None},
                  iv_seed \in IvSeeds :
                  challenge_scan(s, k, TRUE, enc, TRUE, cde, iv_seed) =>
                      OtpPolicy(Unwrap(cde), Unwrap(inflight'[s].rreq))
      ]_vars

\* A CReq#1 was answered with a failed result that is on its way to /3ds/results.
C21_Witness ==
    \E s \in Slots :
        /\ inflight[s].kind = "challenge"
        /\ inflight[s].pc = "r_get"
        /\ Unwrap(inflight[s].rreq).trans_status = "N"
        /\ Unwrap(inflight[s].rreq).authentication_value = "AAAAAAAAAAAAAAAAAAAAAA=="

\* ------------------------------------------------------------------ C22
\* The record under k is the one of a browser AReq that was decided as challenge.
BrowserChallengeRecord(td) ==
    /\ td.authenticate_request.device_channel = "02"
    /\ should_challenge(td.authenticate_request)

\* (transStatus, eci, authenticationValue) of the Location of a verify-otp redirect.
RedirectTriple(r) ==
    << r.location.trans_status, Unwrap(r.location.eci), Unwrap(r.location.authentication_value) >>

\* C22: browser challenge end to end. After an AReq with deviceChannel "02" decided
\* as challenge for k, verify-otp for k with OTP o synthesises Y/02 when o is "1234"
\* and N/07 otherwise; when its store calls all succeed on a live record, the 302
\* redirect carries that result and the record under k holds it, so that /3ds/final
\* for k, while that result is the last one stored under k, returns the same
\* transStatus, eci and authenticationValue as the redirect.
C22_BrowserChallenge ==
    [][ /\ \A s \in Slots :
              (Acts(s) /\ inflight[s].pc = "idle" /\ inflight'[s].kind = "verify") =>
                  \A k \in Keys, otp \in Otps, query \in RedirectQueries :
                      (acs_verify_otp_handler(Some(k), otp, query, TRUE)
                       /\ BrowserChallengeRecord(Rec(k))) =>
                          /\ Unwrap(inflight'[s].rreq).three_ds_server_trans_id = k
                          /\ RReqTriple(Unwrap(inflight'[s].rreq)) =
                                IF otp = "1234"
                                THEN << "Y", "02", generate_authentic_auth_value >>
                                ELSE << "N", "07", "AAAAAAAAAAAAAAAAAAAAAA==" >>
        /\ \A s \in Slots :
              (inflight[s].kind = "verify" /\ ResultsReturns(s, 200)) =>
                  LET k == Unwrap(inflight[s].rreq).three_ds_server_trans_id
                      rreq == Unwrap(inflight[s].rreq)
                      final == FinalResponse(k, get(redis', k), TRUE)
                  IN
                  /\ Unwrap(out').status = 302
                  /\ Unwrap(out').location.error = None
                  /\ RedirectTriple(Unwrap(out')) = RReqTriple(rreq)
                  /\ final.status = 200
                  /\ << final.trans_status, final.eci, final.authentication_value >>
                        = RedirectTriple(Unwrap(out'))
        /\ (AnsweredAtOnce /\ OutIs("final")') =>
              LET k == Unwrap(out').three_ds_server_trans_id
                  f == Unwrap(out')
              IN
              (f.status # 500 /\ Live(k) /\ BrowserChallengeRecord(Rec(k))
               /\ rrSource[k] = "otp") =>
                  /\ f.status = 200
                  /\ << f.trans_status, f.eci, f.authentication_value >>
                        \in { << "Y", "02", generate_authentic_auth_value >>,
                              << "N", "07", "AAAAAAAAAAAAAAAAAAAAAA==" >> }
                  /\ << f.trans_status, f.eci, f.authentication_value >>
                        = RReqTriple(Unwrap(Rec(k).results_request))
      ]_vars

\* /3ds/final answered Y/02 for a browser challenge whose OTP verify-otp stored.
C22_Witness ==
    /\ OutIs("final")
    /\ Unwrap(out).status = 200
    /\ Unwrap(out).trans_status = "Y"
    /\ Unwrap(out).eci = "02"
    /\ LET k == Unwrap(out).three_ds_server_trans_id IN
        /\ Live(k)
        /\ BrowserChallengeRecord(Rec(k))
        /\ rrSource[k] = "otp"

\* ------------------------------------------------------------------ C23
\* C23: the flow engine never panics: every request to /3ds/authenticate,
\* /3ds/results and /3ds/final, in every store state and at every log level, an
\* acctNumber shorter than four characters included, ends with a structured
\* HTTP response of status 2xx, 4xx or 5xx.
C23_NeverPanics ==
    out # None =>
        \/ Unwrap(out).status \in 200..299
        \/ Unwrap(out).status \in 400..599

\* ------------------------------------------------------------------ C27
\* The five parts of the JWE the library produced.
CodecJwe == Unwrap(Unwrap(codec.jwe).value)
\* The protected header of that JWE.
CodecHeader == Unwrap(jwe_header(CodecJwe).value)
\* A JWE was produced for the platform.
Encrypted(platform) == codec.platform = platform /\ codec.jwe # None
\* That JWE was decrypted again under the key it was made with.
RoundTripDone(platform) == codec.platform = platform /\ codec.decrypted # None

\* C27: JWE round-trip, Android dialect: for every JSON message m, every 32-byte
\* key k and every kid, encrypt_challenge_response(m, kid, k, "android") succeeds,
\* its header carries that kid, and decrypt_challenge_request of it under k
\* returns m; the tag is made and verified under k[0..16) and the content is
\* encrypted and decrypted under k[16..32), so that a key with the halves
\* exchanged decrypts it only when the two halves are equal.
C27_AndroidRoundTrip ==
    /\ Encrypted("android") =>
          /\ Unwrap(codec.jwe).ok
          /\ CodecHeader.kid = codec.kid
          /\ CodecHeader.enc = "A128CBC-HS256"
          /\ Unwrap(URL_SAFE_NO_PAD_decode(CodecJwe[4]).value).key = codec.key[2]
          /\ Unwrap(URL_SAFE_NO_PAD_decode(CodecJwe[5]).value).value[2] = codec.key[1]
          /\ decrypt_challenge_request(CodecJwe, << codec.key[2], codec.key[1] >>).ok
                <=> codec.key[1] = codec.key[2]
    /\ RoundTripDone("android") =>
          /\ Unwrap(codec.decrypted).ok
          /\ Unwrap(Unwrap(codec.decrypted).value) = Unwrap(codec.message)

\* A message went through the Android dialect and back under a key whose halves differ.
C27_Witness ==
    /\ RoundTripDone("android")
    /\ codec.key[1] # codec.key[2]
    /\ Unwrap(codec.decrypted).ok

\* ------------------------------------------------------------------ C28
\* C28: JWE round-trip, iOS dialect: for every JSON message m, every 32-byte key k
\* and every kid, decrypt_challenge_request(encrypt_challenge_response(m, kid, k,
\* "ios"), k) returns m, and the produced header carries that kid.
C28_IosRoundTrip ==
    /\ Encrypted("ios") =>
          /\ Unwrap(codec.jwe).ok
          /\ CodecHeader.kid = codec.kid
    /\ RoundTripDone("ios") =>
          /\ Unwrap(codec.decrypted).ok
          /\ Unwrap(Unwrap(codec.decrypted).value) = Unwrap(codec.message)

\* ------------------------------------------------------------------ C29
\* C29: ECDH consistency: for key pairs (sdk_priv, sdk_pub) and (acs_priv, acs_pub)
\* generated independently and for both platforms,
\* calculate_derived_key(sdk_pub, acs_priv, p) and
\* calculate_derived_key(acs_pub, sdk_priv, p) succeed with the same key, and that
\* key is 32 bytes long.
C29_EcdhConsistency ==
    codec.derived_key_1 # None =>
        /\ Unwrap(codec.derived_key_1).ok
        /\ Unwrap(codec.derived_key_2).ok
        /\ Unwrap(Unwrap(codec.derived_key_1).value) = Unwrap(Unwrap(codec.derived_key_2).value)
        /\ key_len(Unwrap(Unwrap(codec.derived_key_1).value)) = 32

\* Both sides derived the iOS key from two different key pairs.
C29_Witness ==
    /\ codec.derived_key_1 # None
    /\ codec.platform = "ios"
    /\ Unwrap(codec.sdk_keys) # Unwrap(codec.acs_keys)
    /\ Unwrap(codec.derived_key_1).ok

\* ------------------------------------------------------------------ C24
\* The record under k is the one the kid of the request in slot s resolves to.
Resolves(s, k) ==
    /\ inflight[s].pc = "scan"
    /\ k \in inflight[s].keys
    /\ Live(k)
    /\ Rec(k).acs_trans_id = inflight[s].kid

\* The record lacks the server's key pair or the SDK's public key.
LacksAKey(td) == td.ephemeral_keys = None \/ td.sdk_ephemeral_public_key = None

\* C24: a /challenge request whose kid resolves to a record without ephemeralKeys
\* or without sdkEphemeralPublicKey is answered with 400, with no CRes and no JWE,
\* after no call of the crypto library, and the store is left as it was, whether
\* or not the request carries challengeDataEntry.
C24_BothKeysNeeded ==
    [][ \A s \in Slots, k \in Keys :
          (Resolves(s, k) /\ LacksAKey(Rec(k)) /\ Acts(s)) =>
             \A enc \in Encs, decrypt_ok \in BOOLEAN, cde \in ChallengeDataEntries,
                iv_seed \in IvSeeds :
                challenge_scan(s, k, TRUE, enc, decrypt_ok, cde, iv_seed) =>
                    /\ out' # None
                    /\ Unwrap(out').status = 400
                    /\ Unwrap(out').cres = None
                    /\ Unwrap(out').jwe = None
                    /\ Unwrap(out').crypto = << >>
                    /\ inflight'[s] = Idle
                    /\ redis' = redis
                    /\ ttl' = ttl
      ]_vars

\* /challenge was refused for the record of a frictionless mobile transaction, which
\* has the SDK's key and no key pair of the server.
C24_Witness ==
    /\ out # None
    /\ Unwrap(out).kind = "challenge"
    /\ Unwrap(out).branch = "Missing ephemeral keys for ECDH"
    /\ \E k \in Keys :
          /\ Live(k)
          /\ Rec(k).acs_trans_id = Unwrap(out).kid
          /\ Rec(k).sdk_ephemeral_public_key # None
          /\ Rec(k).ephemeral_keys = None

\* ------------------------------------------------------------------ C25
\* The values of the header's enc that name no dialect.
UnsupportedEncs == Encs \ { "A128CBC-HS256", "A128GCM" }

\* C25: a /challenge request whose header enc is neither A128CBC-HS256 nor A128GCM
\* is refused before any cryptographic work: once its kid has resolved to a record
\* with both keys it is answered with 400 "Unsupported encryption algorithm", and
\* on the way there no key is derived, nothing is decrypted or encrypted, no call
\* of /3ds/results is started and the store is not written.
C25_UnsupportedEncRejected ==
    [][ \A s \in Slots, k \in Keys :
          (inflight[s].pc = "scan" /\ Acts(s)) =>
             \A backend_ok \in BOOLEAN, enc \in UnsupportedEncs, decrypt_ok \in BOOLEAN,
                cde \in ChallengeDataEntries, iv_seed \in IvSeeds :
                challenge_scan(s, k, backend_ok, enc, decrypt_ok, cde, iv_seed) =>
                    /\ redis' = redis
                    /\ ttl' = ttl
                    /\ inflight'[s].pc \in { "idle", "scan" }
                    /\ out' # None =>
                          /\ Unwrap(out').status \in { 400, 404, 500 }
                          /\ Unwrap(out').crypto = << >>
                          /\ Unwrap(out').cres = None
                          /\ Unwrap(out').jwe = None
                    /\ (backend_ok /\ Resolves(s, k) /\ ~LacksAKey(Rec(k))) =>
                          /\ out' # None
                          /\ Unwrap(out').status = 400
                          /\ Unwrap(out').branch = "Unsupported encryption algorithm"
      ]_vars

\* A request was refused for its enc, by a record that has both keys.
C25_Witness ==
    /\ out # None
    /\ Unwrap(out).kind = "challenge"
    /\ Unwrap(out).branch = "Unsupported encryption algorithm"
    /\ \E k \in Keys :
          /\ Live(k)
          /\ Rec(k).acs_trans_id = Unwrap(out).kid
          /\ ~LacksAKey(Rec(k))

\* ------------------------------------------------------------------ C26
\* The platform of a supported enc.
Dialect(enc) == IF enc = "A128CBC-HS256" THEN "android" ELSE "ios"
\* The protected header of a compact JWE, and the key and the plaintext of its content.
JweHeader(jwe) == Unwrap(jwe_header(jwe).value)
JweContent(jwe) == Unwrap(URL_SAFE_NO_PAD_decode(jwe[4]).value)
\* The key the server derives for a request that found the record td, and the key
\* the SDK derives from its own private key and the server's public key.
ServerKey(td, enc) ==
    calculate_derived_key(Unwrap(td.sdk_ephemeral_public_key),
                          Unwrap(td.ephemeral_keys).private_key, Dialect(enc))
SdkKey(td, enc) ==
    calculate_derived_key(to_string(Unwrap(td.ephemeral_keys).public_key),
                          URL_SAFE_NO_PAD_encode(Bytes(32, SdkScalar)), Dialect(enc))
\* The response is a JWE of its CRes with the header (dir, enc, kid), its content
\* encrypted under the second half of key.
Mirrors(resp, enc, kid, key) ==
    /\ resp.status = 200
    /\ resp.jwe # None
    /\ JweHeader(Unwrap(resp.jwe)) = [ alg |-> "dir", enc |-> enc, kid |-> kid ]
    /\ JweContent(Unwrap(resp.jwe)).key = key[2]
    /\ JweContent(Unwrap(resp.jwe)).plaintext = to_string(resp.cres)
\* The request in slot s is answered in this step.
Answered(s) == Acts(s) /\ inflight'[s] = Idle /\ out' # None

\* C26: every /challenge request that is answered with a CRes is answered with a
\* JWE whose protected header has alg "dir", the enc of the request's header and
\* the request's kid, and whose content is encrypted under the key derived for
\* that request from the record's two keys: the OTP prompt in the step that found
\* the record, the final CRes with the enc, kid and key that step kept.
C26_EnvelopeMirrored ==
    [][ \A s \in Slots :
          /\ (inflight[s].pc = "scan" /\ Acts(s)) =>
                \A k \in Keys, enc \in Encs, cde \in ChallengeDataEntries, iv_seed \in IvSeeds :
                    (challenge_scan(s, k, TRUE, enc, TRUE, cde, iv_seed)
                        /\ (out' # None => Unwrap(out').status = 200)
                        /\ inflight'[s].pc # "scan") =>
                       /\ ServerKey(Rec(k), enc).ok
                       /\ ServerKey(Rec(k), enc) = SdkKey(Rec(k), enc)
                       /\ cde = None =>
                             Mirrors(Unwrap(out'), enc, inflight[s].kid,
                                     Unwrap(ServerKey(Rec(k), enc).value))
                       /\ cde # None =>
                             /\ inflight'[s].enc = enc
                             /\ inflight'[s].kid = inflight[s].kid
                             /\ inflight'[s].derived_key = Unwrap(ServerKey(Rec(k), enc).value)
          /\ (inflight[s].kind = "challenge" /\ inflight[s].pc # "scan" /\ Acts(s)) =>
                /\ ~Answered(s) =>
                      /\ inflight'[s].enc = inflight[s].enc
                      /\ inflight'[s].kid = inflight[s].kid
                      /\ inflight'[s].derived_key = inflight[s].derived_key
                /\ Answered(s) =>
                      Mirrors(Unwrap(out'), inflight[s].enc, inflight[s].kid,
                              inflight[s].derived_key)
      ]_vars

\* A final CRes went out as an iOS JWE.
C26_Witness ==
    /\ out # None
    /\ Unwrap(out).kind = "challenge"
    /\ Unwrap(out).branch = "final"
    /\ Unwrap(out).jwe # None
    /\ JweHeader(Unwrap(Unwrap(out).jwe)).enc = "A128GCM"

\* ------------------------------------------------------------------ C30
\* The errors with_retry tries again after: connection (Redis) and pool errors.
Transient(outcome) == outcome \in { "Redis", "Pool" }
\* The number of times the backend action of the current operation has run.
Invocations == Len(retry.outcomes)

\* C30: a store operation runs its backend action at most 3 times; every run but
\* the last ended with a transient error and was followed by a sleep of 100 ms
\* times the attempt number (100 ms, then 200 ms); the first run that succeeds ends
\* the operation with its value; a transient error ends it only as the third, and
\* is then the error returned, which /3ds/authenticate and /3ds/final answer
\* with 500.
C30_RetryBackoff ==
    /\ Invocations <= 3
    /\ retry.pc = "loop" => Invocations < 3
    /\ \A i \in 1..Invocations :
          (i < Invocations \/ retry.pc = "loop") => Transient(retry.outcomes[i])
    /\ retry.slept = [ i \in 1..Len(retry.slept) |-> 100 * i ]
    /\ retry.pc = "loop" => Len(retry.slept) = Invocations
    /\ retry.pc \in { "returned", "done" } =>
          /\ Invocations >= 1
          /\ Len(retry.slept) = Invocations - 1
          /\ retry.result.ok <=> retry.outcomes[Invocations] = "Ok"
          /\ retry.result.ok => retry.result = Ok(retry.operation)
          /\ ~retry.result.ok => retry.result = Err(retry.outcomes[Invocations])
          /\ Transient(retry.outcomes[Invocations]) => Invocations = 3
    /\ (retry.pc = "done" /\ retry.operation \in { "insert", "get" }) =>
          /\ out # None
          /\ ~retry.result.ok => Unwrap(out).status = 500
          /\ retry.result.ok => Unwrap(out).status # 500

\* Three attempts failed with transient errors, 100 ms and 200 ms apart, and the
\* handler answered 500.
C30_Witness ==
    /\ retry.pc = "done"
    /\ Invocations = 3
    /\ Transient(retry.outcomes[3])
    /\ retry.slept = << 100, 200 >>
    /\ out # None
    /\ Unwrap(out).status = 500

\* ------------------------------------------------------------------ C31
\* The errors with_retry hands back at once.
NonTransient(outcome) == outcome \in { "NotFound", "Serialization" }

\* C31: when a run of the backend action ends with NotFound or a serialisation
\* error, on the first, second or third attempt, with_retry returns that error
\* from that run: the run is the last one, no sleep follows it (the sleeps are
\* those of the transient failures before it) and the error is the result.
C31_NonTransientNotRetried ==
    \A i \in 1..Invocations :
        NonTransient(retry.outcomes[i]) =>
            /\ i = Invocations
            /\ retry.pc \in { "returned", "done" }
            /\ retry.attempt = i
            /\ Len(retry.slept) = i - 1
            /\ retry.result = Err(retry.outcomes[i])

\* update returned NotFound from its second attempt, after one transient failure.
C31_Witness ==
    /\ retry.pc = "returned"
    /\ retry.operation = "update"
    /\ retry.outcomes = << "Pool", "NotFound" >>
    /\ retry.slept = << 100 >>

\* ------------------------------------------------------------------ C32
\* The AReq is a mobile one that passes the prerequisite and is decided as challenge.
MobileChallengeAReq(req) ==
    /\ req.device_channel = "01"
    /\ req.sdk_trans_id # None
    /\ should_challenge(req)

PromptFor(resp, k) ==
    /\ resp.kind = "challenge"
    /\ resp.status = 200
    /\ resp.branch = "prompt"
    /\ resp.cres.challenge_completion_ind = "N"
    /\ resp.cres.acs_counter_a_to_s = "000"
    /\ resp.cres.trans_status = None
    /\ resp.cres.three_ds_server_trans_id = k

\* C33: a CReq without challengeDataEntry (one of a supported dialect that
\* decrypts) never writes the store and never starts a call of /3ds/results:
\* whatever the state of the record it finds, with or without resultsRequest, the
\* step that handles it leaves every record and every TTL as they were, and when
\* the record has both keys it is answered with the OTP prompt
\* (challengeCompletionInd "N", acsCounterAtoS "000").
C33_PromptWritesNothing ==
    [][ \A s \in Slots, k \in Keys :
          (inflight[s].pc = "scan" /\ Acts(s) /\ k \in inflight[s].keys) =>
             \A enc \in Encs \ UnsupportedEncs, iv_seed \in IvSeeds :
                challenge_scan(s, k, TRUE, enc, TRUE, None, iv_seed) =>
                    /\ redis' = redis
                    /\ ttl' = ttl
                    /\ inflight'[s].pc \in { "idle", "scan" }
                    /\ inflight'[s].rreq = None
                    /\ (Resolves(s, k) /\ ~LacksAKey(Rec(k))) =>
                          /\ out' # None
                          /\ PromptFor(Unwrap(out'), k)
      ]_vars

\* The OTP prompt was sent again for a transaction that has its resultsRequest.
C33_Witness ==
    /\ OutPrompt
    /\ HasResults(Unwrap(out).cres.three_ds_server_trans_id)
    /\ ttl[Unwrap(out).cres.three_ds_server_trans_id] < TtlSeconds

\* ------------------------------------------------------------------ C34
\* C34 (as stated): every stored record has sdkTransId present when the
\* deviceChannel of its AReq is "01" and absent when it is anything else.
C34_SdkTransIdByChannel ==
    \A k \in Keys :
        Live(k) =>
            (Rec(k).sdk_trans_id # None <=> Rec(k).authenticate_request.device_channel = "01")

\* C34 (amended): every stored record has sdkTransId present when the
\* deviceChannel of its AReq is "01"; for any other deviceChannel the record
\* holds the sdkTransId its AReq carried, present or absent.
C34_SdkTransIdAsSupplied ==
    \A k \in Keys :
        Live(k) =>
            /\ Rec(k).authenticate_request.device_channel = "01" => Rec(k).sdk_trans_id # None
            /\ Rec(k).sdk_trans_id = Rec(k).authenticate_request.sdk_trans_id

\* The record of a browser AReq holds an sdkTransId, and still does after its
\* resultsRequest was written.
C34_Witness ==
    \E k \in Keys :
        /\ HasResults(k)
        /\ Rec(k).authenticate_request.device_channel = "02"
        /\ Rec(k).sdk_trans_id # None

\* ------------------------------------------------------------------ C35
\* The record is the one of a mobile AReq that was decided as challenge.
MobileChallengeRecord(td) ==
    /\ td.authenticate_request.device_channel = "01"
    /\ should_challenge(td.authenticate_request)

\* C35: a stored record has ephemeralKeys only if its AReq had deviceChannel "01"
\* and was decided as challenge, and a step that is not the insert of an AReq
\* under k (an RReq, a CReq, verify-otp) leaves the ephemeralKeys of the record
\* under k as they were.
C35_EphemeralKeysStable ==
    [][ \A k \in Keys :
          /\ (redis'[k] # None /\ Unwrap(redis'[k]).ephemeral_keys # None) =>
                MobileChallengeRecord(Unwrap(redis'[k]))
          /\ (Live(k) /\ redis'[k] # None /\ ~AReqStored(k)) =>
                Unwrap(redis'[k]).ephemeral_keys = Rec(k).ephemeral_keys
      ]_vars

\* C35 as the code has it: a stored record has ephemeralKeys only if its AReq had
\* deviceChannel "01" and was decided as challenge, and a step that is not the
\* insert of an AReq under k and leaves the record under k with the acsTransId it
\* had leaves its ephemeralKeys as they were. (A results write whose get ran before
\* a further AReq under k puts back the record it read, acsTransId and
\* ephemeralKeys of the earlier AReq included.)
C35_EphemeralKeysOfRecordRead ==
    [][ \A k \in Keys :
          /\ (redis'[k] # None /\ Unwrap(redis'[k]).ephemeral_keys # None) =>
                MobileChallengeRecord(Unwrap(redis'[k]))
          /\ (/\ Live(k) /\ redis'[k] # None /\ ~AReqStored(k)
              /\ Unwrap(redis'[k]).acs_trans_id = Rec(k).acs_trans_id) =>
                Unwrap(redis'[k]).ephemeral_keys = Rec(k).ephemeral_keys
      ]_vars

\* A results write went through on the record of a mobile challenge AReq, which
\* still holds its key pair.
C35_Witness ==
    \E k \in Keys :
        /\ HasResults(k)
        /\ MobileChallengeRecord(Rec(k))
        /\ Rec(k).ephemeral_keys # None

\* ------------------------------------------------------------------ C36
\* The fields of a record that only its AReq decides.
AReqFields(td) ==
    << td.acs_trans_id, td.ds_trans_id, td.ephemeral_keys, td.sdk_ephemeral_public_key >>

\* This step is the SETEX of the results write that slot s runs for key k.
ResultsWrite(s, k) ==
    /\ inflight[s].pc = "r_setex"
    /\ Acts(s)
    /\ Unwrap(inflight[s].rreq).three_ds_server_trans_id = k
    /\ redis'[k] # redis[k]

\* This step is the get of the results write that slot s runs for key k.
ResultsRead(s, k) ==
    /\ inflight'[s].pc = "r_exists"
    /\ Acts(s)
    /\ Unwrap(inflight'[s].rreq).three_ds_server_trans_id = k

\* C36: no lost update on results: the SETEX of a results write for k leaves the
\* acsTransId, dsTransId, ephemeralKeys and sdkEphemeralPublicKey that the record
\* under k has at that moment (those of the latest AReq stored under k), whatever
\* was stored under k since the get of that results write.
C36_NoLostUpdate ==
    [][ \A s \in Slots, k \in Keys :
          (ResultsWrite(s, k) /\ Live(k)) =>
              AReqFields(Unwrap(redis'[k])) = AReqFields(Rec(k)) ]_vars

\* C36 as the code has it (last writer wins): the get of a results write copies the
\* four fields of the record under k, its SETEX writes the four fields of that copy,
\* and these are the fields the record under k has at that moment when the record
\* still carries the acsTransId that was read (no AReq was stored under k in
\* between). When an AReq was stored under k between the get and the SETEX, the
\* SETEX puts back the four fields of the record the get returned.
C36_LastWriterWins ==
    [][ \A s \in Slots, k \in Keys :
          /\ ResultsRead(s, k) =>
                AReqFields(Unwrap(inflight'[s].td)) = AReqFields(Rec(k))
          /\ ResultsWrite(s, k) =>
                /\ AReqFields(Unwrap(redis'[k])) = AReqFields(Unwrap(inflight[s].td))
                /\ (Live(k) /\ Rec(k).acs_trans_id = Unwrap(inflight[s].td).acs_trans_id) =>
                      AReqFields(Unwrap(redis'[k])) = AReqFields(Rec(k)) ]_vars

\* Two AReq were stored under k and nothing under another key, a results write for
\* k completed, and the record under k does not carry the dsTransID minted last:
\* it is the copy the results write read before the second AReq.
C36_Witness ==
    \E k \in Keys :
        /\ areqs[k] >= 2
        /\ \A j \in Keys \ {k} : areqs[j] = 0
        /\ HasResults(k)
        /\ Rec(k).ds_trans_id < minted

\* ------------------------------------------------------------------ C37
\* C37: update is atomic with respect to expiry: the SETEX of update(k, v) never
\* binds a key that is absent at the moment of the write; an update whose key has
\* gone returns NotFound, and a value is written only over a key that is present.
C37_UpdateAtomic ==
    [][ \A s \in Slots, k \in Keys : ResultsWrite(s, k) => Live(k) ]_vars

\* ------------------------------------------------------------------ C38
\* The resultsRequest of record td carries the acsTransID and dsTransID of td.
OwnIds(td) ==
    /\ Unwrap(td.results_request).acs_trans_id = td.acs_trans_id
    /\ Unwrap(td.results_request).ds_trans_id = td.ds_trans_id

\* C38: with resultsRequest written through /challenge and verify-otp only, every
\* stored record that has a resultsRequest has it with threeDSServerTransID = its
\* key, acsTransID = its own acsTransId and dsTransID = its own dsTransId.
C38_ResultsRequestOwnIds ==
    \A k \in Keys :
        HasResults(k) =>
            /\ Unwrap(Rec(k).results_request).three_ds_server_trans_id = k
            /\ OwnIds(Rec(k))

\* C38 as the code has it: with resultsRequest written through /challenge and
\* verify-otp only, every stored resultsRequest has threeDSServerTransID = its key,
\* and its acsTransID and dsTransID are those of the record the endpoint read: the
\* results write stores the RReq as synthesised, and its record carries its own
\* acsTransId and dsTransId in it when the record the results write reads still
\* has the acsTransId the endpoint read. (An AReq stored under the key between the
\* endpoint's read and the get of the results write leaves a record whose
\* resultsRequest carries the ids of the record it replaced.)
C38_IdsOfRecordRead ==
    [][ \A k \in Keys :
          /\ (redis'[k] # None /\ Unwrap(redis'[k]).results_request # None) =>
                Unwrap(Unwrap(redis'[k]).results_request).three_ds_server_trans_id = k
          /\ \A s \in Slots :
                ResultsRead(s, k) =>
                    /\ Live(k)
                    /\ Unwrap(inflight'[s].td).results_request = inflight'[s].rreq
                    /\ Unwrap(inflight'[s].td).acs_trans_id = Rec(k).acs_trans_id
                    /\ Unwrap(inflight'[s].rreq).acs_trans_id = Rec(k).acs_trans_id =>
                          OwnIds(Unwrap(inflight'[s].td))
          /\ \A s \in Slots :
                ResultsWrite(s, k) => redis'[k] = inflight[s].td
      ]_vars

\* A second AReq was stored under k, and the resultsRequest a challenge endpoint
\* then wrote carries the ids of the record under k.
C38_Witness ==
    \E k \in Keys :
        /\ areqs[k] >= 2
        /\ HasResults(k)
        /\ rrSource[k] = "otp"
        /\ OwnIds(Rec(k))

\* ------------------------------------------------------------------ C39
\* The two outcomes of an OTP submission: accepted and refused.
OtpTriples ==
    { << "Y", "02", generate_authentic_auth_value >>,
      << "N", "07", generate_failed_auth_value >> }

Triple(r) == << r.trans_status, r.eci, r.authentication_value >>

C40_ChallengedOnChannel ==
    [][ \A s \in Slots, k \in Keys :
          (OtpStored(s, k) /\ redis'[k] # None) =>
              /\ inflight[s].kind = "verify" => BrowserChallengeRecord(Unwrap(redis'[k]))
              /\ inflight[s].kind = "challenge" => MobileChallengeRecord(Unwrap(redis'[k]))
      ]_vars

====
